---- MODULE Spec2Model ----
(***************************************************************************)
(* A model of manim-narration: the tag parser (tags.py), the alignment     *)
(* service base class with its on-disk cache (alignment/aligner_base.py),  *)
(* the narration tracker (tracker.py) and the speech service base class    *)
(* with its on-disk cache (speech/speech_base.py).                         *)
(*                                                                         *)
(* A text is a sequence of one-character strings.  An input text is given  *)
(* as a sequence of lexical tokens (runs of plain characters and tags as   *)
(* they are spelled in the source text); SourceText gives the characters   *)
(* of the input and goahead gives the handler html.parser calls for each   *)
(* token.                                                                  *)
(***************************************************************************)
EXTENDS Integers, Sequences, FiniteSets, TLC

VARIABLES
    parser,     \* the TagParser object: tags_to_record, tags_to_remove,
                \* text_parts, tags, _pos
    fed,        \* the tokens passed to parser.feed so far, in order
    fs,         \* the files of the cache directory: path -> content
    tracker,    \* the NarrationTracker object, NoTracker before construction
    scene_time, \* scene.time
    alignment_service,  \* scene.alignment_service
    ret,        \* the last call and what it returned or raised
    invoked,    \* calls made so far to the services' methods, per method
    returned,   \* the values returned so far, per request
    procs,      \* the processes sharing the cache directory, each at a step
    scene,      \* the NarrationScene object and the trackers it has created
    namespace   \* the namespace of the imported manim_narration module

parserVars  == <<parser, fed>>
cacheVars   == <<fs, ret, invoked, returned>>
trackerVars == <<tracker, scene_time, alignment_service>>
raceVars    == <<procs>>
sceneVars   == <<scene>>
moduleVars  == <<namespace>>
vars        == <<parser, fed, fs, tracker, scene_time, alignment_service,
                 ret, invoked, returned, procs, scene, namespace>>

(***************************************************************************)
(* Bounds of the model.                                                    *)
(***************************************************************************)
MaxTokens == 3      \* number of tokens fed to one parser (free exploration)

(***************************************************************************)
(* Characters and texts.                                                   *)
(***************************************************************************)
RECURSIVE Join(_)
\* "".join(parts)
Join(parts) ==
    IF parts = <<>> THEN <<>> ELSE Head(parts) \o Join(Tail(parts))

\* str(None), as an f-string renders a valueless attribute
NoneStr == <<"N", "o", "n", "e">>

(***************************************************************************)
(* Lexical tokens of an input text.  quote is the way the attribute values *)
(* are written in the source: "double" (k="v"), "single" (k='v') or "bare" *)
(* (k=v).  An attribute is [key, value, hasValue]; hasValue = FALSE is a   *)
(* valueless attribute (<b k>), which html.parser reports with value None. *)
(***************************************************************************)
DataTok(chars) ==
    [type |-> "data", chars |-> chars, kind |-> "", name |-> <<>>,
     attrs |-> <<>>, quote |-> ""]

TagTok(kind, name, attrs, quote) ==
    [type |-> "tag", chars |-> <<>>, kind |-> kind, name |-> name,
     attrs |-> attrs, quote |-> quote]

Attr(key, value) == [key |-> key, value |-> value, hasValue |-> TRUE]
BoolAttr(key)    == [key |-> key, value |-> <<>>, hasValue |-> FALSE]

QuoteChars(quote) ==
    CASE quote = "double" -> <<"\"">>
      [] quote = "single" -> <<"'">>
      [] OTHER            -> <<>>

RECURSIVE SourceAttrs(_, _)
SourceAttrs(attrs, quote) ==
    IF attrs = <<>> THEN <<>>
    ELSE LET a == Head(attrs)
         IN  <<" ">> \o a.key
             \o (IF a.hasValue
                 THEN <<"=">> \o QuoteChars(quote) \o a.value \o QuoteChars(quote)
                 ELSE <<>>)
             \o SourceAttrs(Tail(attrs), quote)

\* The characters of one token as written in the input text.
SourceOf(tok) ==
    IF tok.type = "data" THEN tok.chars
    ELSE CASE tok.kind = "end"      -> <<"<", "/">> \o tok.name \o <<">">>
           [] tok.kind = "startend" ->
                <<"<">> \o tok.name \o SourceAttrs(tok.attrs, tok.quote) \o <<"/", ">">>
           [] OTHER                 ->
                <<"<">> \o tok.name \o SourceAttrs(tok.attrs, tok.quote) \o <<">">>

RECURSIVE SourceText(_)
\* The input text T: the concatenation of its tokens' spellings.
SourceText(toks) ==
    IF toks = <<>> THEN <<>> ELSE SourceOf(Head(toks)) \o SourceText(Tail(toks))

(***************************************************************************)
(* TagInfo (tags.py:14-73).                                                *)
(***************************************************************************)
RECURSIVE dict(_)
\* dict(attrs): a later pair with the same key replaces the value in place.
dict(attrs) ==
    IF attrs = <<>> THEN <<>>
    ELSE LET front == dict(SubSeq(attrs, 1, Len(attrs) - 1))
             last  == attrs[Len(attrs)]
         IN  IF \E i \in 1..Len(front) : front[i].key = last.key
             THEN [i \in 1..Len(front) |->
                       IF front[i].key = last.key THEN last ELSE front[i]]
             ELSE Append(front, last)

TagInfo(kind, name, attrs, offset) ==
    [kind |-> kind, name |-> name,
     attrs |-> IF kind = "end" THEN <<>> ELSE attrs,
     offset |-> offset]

RECURSIVE JoinAttrs(_)
\* " ".join(f'{k}="{v}"' for k, v in attrs.items())
JoinAttrs(attrs) ==
    IF attrs = <<>> THEN <<>>
    ELSE LET a == Head(attrs)
             one == a.key \o <<"=", "\"">>
                    \o (IF a.hasValue THEN a.value ELSE NoneStr) \o <<"\"">>
         IN  IF Tail(attrs) = <<>> THEN one
             ELSE one \o <<" ">> \o JoinAttrs(Tail(attrs))

format_attrs(tag_info) ==
    IF tag_info.attrs = <<>> THEN <<>>
    ELSE <<" ">> \o JoinAttrs(tag_info.attrs)

\* TagInfo.__str__
TagInfo_str(tag_info) ==
    CASE tag_info.kind = "end"      -> <<"<", "/">> \o tag_info.name \o <<">">>
      [] tag_info.kind = "startend" ->
            <<"<">> \o tag_info.name \o format_attrs(tag_info) \o <<"/", ">">>
      [] OTHER                      ->
            <<"<">> \o tag_info.name \o format_attrs(tag_info) \o <<">">>

(***************************************************************************)
(* TagParser (tags.py:76-140).  A selector is [isNone, names]: None, or a  *)
(* set of tag names (the empty set selects every tag).                     *)
(***************************************************************************)
NoTags      == [isNone |-> TRUE, names |-> {}]
Names(s)    == [isNone |-> FALSE, names |-> s]
DEFAULT     == Names({})

\* TagParser.__init__
TagParser(tags_to_record, tags_to_remove) ==
    [tags_to_record |-> tags_to_record,
     tags_to_remove |-> tags_to_remove,
     text_parts     |-> <<>>,
     tags           |-> <<>>,
     _pos           |-> 0]

\* IsRecorded with the empty set taken to select nothing
IsRecorded_EmptySelectsNothing(p, tag) ==
    ~p.tags_to_record.isNone /\ tag \in p.tags_to_record.names

\* the first condition of _process_tag: the tag is appended to self.tags
IsRecorded(p, tag) ==
    ~p.tags_to_record.isNone
    /\ (p.tags_to_record.names = {} \/ tag \in p.tags_to_record.names)

\* the second condition of _process_tag: the tag is re-emitted into the text
IsKept(p, tag) ==
    p.tags_to_remove.isNone
    \/ (p.tags_to_remove.names # {} /\ tag \notin p.tags_to_remove.names)

\* _process_tag with every tag, removed or not, advancing the counter
_process_tag_AdvancesPos(p, kind, tag, attrs) ==
    LET tag_info == TagInfo(kind, tag, attrs, p._pos)
        p1 == IF IsRecorded(p, tag)
              THEN [p EXCEPT !.tags = Append(@, tag_info)]
              ELSE p
        p2 == [p1 EXCEPT !._pos = @ + Len(TagInfo_str(tag_info))]
    IN  IF IsKept(p, tag)
        THEN [p2 EXCEPT !.text_parts = Append(@, TagInfo_str(tag_info))]
        ELSE p2

_process_tag(p, kind, tag, attrs) ==
    LET tag_info == TagInfo(kind, tag, attrs, p._pos)
        p1 == IF IsRecorded(p, tag)
              THEN [p EXCEPT !.tags = Append(@, tag_info)]
              ELSE p
    IN  IF IsKept(p, tag)
        THEN [p1 EXCEPT !.text_parts = Append(@, TagInfo_str(tag_info))]
        ELSE p1

\* a parser that drops closing tags instead of recording them
handle_endtag_Ignored(p, tag) == p

handle_starttag(p, tag, attrs)    == _process_tag(p, "start", tag, dict(attrs))
handle_endtag(p, tag)             == _process_tag(p, "end", tag, <<>>)
handle_startendtag(p, tag, attrs) == _process_tag(p, "startend", tag, dict(attrs))

\* handle_data counting fragments instead of characters
handle_data_CountsFragments(p, data) ==
    [p EXCEPT !.text_parts = Append(@, data), !._pos = @ + 1]

handle_data(p, data) ==
    [p EXCEPT !.text_parts = Append(@, data), !._pos = @ + Len(data)]

RECURSIVE rstrip(_)
rstrip(s) ==
    IF s # <<>> /\ s[Len(s)] = " " THEN rstrip(SubSeq(s, 1, Len(s) - 1)) ELSE s

\* the text property with trailing blanks stripped
text_Stripped(p) == rstrip(Join(p.text_parts))

\* the text property
text(p) == Join(p.text_parts)

\* html.parser's dispatch of one token to its handler.  The quoting of an
\* attribute value is not part of what the handler receives.
goahead(p, tok) ==
    IF tok.type = "data" THEN handle_data(p, tok.chars)
    ELSE CASE tok.kind = "start"    -> handle_starttag(p, tok.name, tok.attrs)
           [] tok.kind = "startend" -> handle_startendtag(p, tok.name, tok.attrs)
           [] OTHER                 -> handle_endtag(p, tok.name)

RECURSIVE runs_of_data(_)
\* the tokens html.parser finds in a text written as toks: text that is not
\* interrupted by a tag is one run of data, delivered in one handle_data call
runs_of_data(toks) ==
    IF Len(toks) < 2 THEN toks
    ELSE IF toks[1].type = "data" /\ toks[2].type = "data"
    THEN runs_of_data(<<[toks[1] EXCEPT !.chars = @ \o toks[2].chars]>>
                          \o SubSeq(toks, 3, Len(toks)))
    ELSE <<Head(toks)>> \o runs_of_data(Tail(toks))

RECURSIVE dispatch(_, _)
\* the loop of HTMLParser.goahead over the tokens of the text
dispatch(p, toks) ==
    IF toks = <<>> THEN p ELSE dispatch(goahead(p, Head(toks)), Tail(toks))

\* parser.feed(text) for a text of several tokens
feed(p, toks) == dispatch(p, runs_of_data(toks))

(***************************************************************************)
(* Inputs of the parser.                                                   *)
(***************************************************************************)
a_ == <<"a">>
b_ == <<"b">>
k_ == <<"k">>
v_ == <<"v">>
bookmark == <<"b", "o", "o", "k", "m", "a", "r", "k">>
mark     == <<"m", "a", "r", "k">>

FreeTokens ==
    { DataTok(<<"x">>),
      DataTok(<<"y", "z">>),
      TagTok("startend", a_, <<>>, "double"),                \* <a/>
      TagTok("startend", b_, <<>>, "double"),                \* <b/>
      TagTok("start", a_, <<Attr(k_, v_)>>, "double"),       \* <a k="v">
      TagTok("startend", b_, <<Attr(k_, v_)>>, "single"),    \* <b k='v'/>
      TagTok("start", a_, <<Attr(k_, v_)>>, "bare"),         \* <a k=v>
      TagTok("start", b_, <<BoolAttr(k_)>>, "double"),       \* <b k>
      TagTok("end", a_, <<>>, "double") }                    \* </a>

Bookmark(m) == TagTok("startend", bookmark, <<Attr(mark, <<m>>)>>, "single")

\* "<bookmark mark='A'/>Test <bookmark mark='B'/>string. <bookmark mark='C'/>"
Scenario ==
    << Bookmark("A"),
       DataTok(<<"T", "e", "s", "t", " ">>),
       Bookmark("B"),
       DataTok(<<"s", "t", "r", "i", "n", "g", ".", " ">>),
       Bookmark("C") >>

Tokens == FreeTokens \cup { Scenario[i] : i \in 1..Len(Scenario) }

Selectors == { NoTags, DEFAULT, Names({a_}), Names({bookmark}) }

IsPrefix(s, t) == Len(s) <= Len(t) /\ SubSeq(t, 1, Len(s)) = s

(***************************************************************************)
(* Small helpers.                                                          *)
(***************************************************************************)
Range(f) == { f[x] : x \in DOMAIN f }

EmptyMap == <<>>

\* {**f, **g}: the entries of g replace those of f
Merge(f, g) ==
    [x \in (DOMAIN f) \cup (DOMAIN g) |-> IF x \in DOMAIN g THEN g[x] ELSE f[x]]

Max(x, y) == IF x >= y THEN x ELSE y

IndexIn(seq, x) == CHOOSE i \in 1..Len(seq) : seq[i] = x

\* the place of x in seq, 0 when x is not in it
IndexOrZero(seq, x) ==
    IF \E i \in 1..Len(seq) : seq[i] = x THEN IndexIn(seq, x) ELSE 0

RECURSIVE SumOver(_, _)
SumOver(S, f) ==
    IF S = {} THEN 0
    ELSE LET x == CHOOSE y \in S : TRUE IN f[x] + SumOver(S \ {x}, f)

(***************************************************************************)
(* Bounds of the cache and tracker models.                                 *)
(***************************************************************************)
MaxTs      == 1   \* largest timestamp an alignment back end returns
MaxCalls   == 3   \* calls made to one service in a behaviour
MaxTime    == 3   \* largest scene time
DigestLen  == 3   \* hex digits of a full digest in the model
MaxMarks   == 3   \* tokens of a text given to _align_bookmarks
TicksPerMs == 2   \* resolution of the model's clock: ticks in one millisecond
MaxOffset  == 3   \* largest character offset and text length given to align_chars
MaxDuration == 5  \* longest audio given to align_chars, in ticks
MaxHashCalls == 2 \* calls of get_hash_from_data in a behaviour
MaxNarrations == 2 \* narrations added to a scene in a behaviour
MaxReads   == 3   \* attribute reads of the package module in a behaviour
MaxSplits  == 3   \* splits given to regroup_splits
MaxSplitLen == 3  \* characters of the longest split
MaxSubcaptions == 3 \* subcaptions of a scene before add_subcaption_text is called

(***************************************************************************)
(* Configuration (_config/config.py).                                      *)
(***************************************************************************)
cache_dir            == "narrations"
audio_file_base_name == <<"s", "p", "e", "e", "c", "h">>
hash_algo            == "sha256"
hash_len             == -1
bookmark_mapping     == bookmark

(***************************************************************************)
(* Paths and files.  A path is [dir, stem, suffix]; fs maps the paths of   *)
(* the files that exist to their content.                                  *)
(***************************************************************************)
Path(dir, stem, suffix) == [dir |-> dir, stem |-> stem, suffix |-> suffix]

with_suffix(path, suffix) == [path EXCEPT !.suffix = suffix]

exists(files, path) == path \in DOMAIN files

write(files, path, content) ==
    [q \in (DOMAIN files) \cup {path} |-> IF q = path THEN content ELSE files[q]]

unlink(files, path) == [q \in (DOMAIN files) \ {path} |-> files[q]]

\* json.dump of a tuple of numbers: a JSON array
json_dump(tuple) == [kind |-> "json", array |-> tuple]

\* tuple(json.load(file))
json_load(content) == content.array

(***************************************************************************)
(* Services.  A service is its class name, the service_kwargs it was built *)
(* with (pairs in insertion order, every value a JSON value that carries   *)
(* its type) and, for a speech service, its file_extension.                *)
(***************************************************************************)
JDict(items) == [t |-> "dict", v |-> items]
JList(items) == [t |-> "list", v |-> items]
JStr(s)      == [t |-> "str", v |-> s]
JInt(n)      == [t |-> "int", v |-> n]

ManualAligner == [name |-> "ManualAligner", kwargs |-> <<>>, ext |-> ""]

InterpolationAligner == [name |-> "InterpolationAligner", kwargs |-> <<>>, ext |-> ""]

CTCAligner ==
    [name |-> "CTCAligner",
     kwargs |-> << <<"language", JStr("eng")>>,
                   <<"model_id", JStr("MahmoudAshraf/mms-300m-1130-forced-aligner")>>,
                   <<"batch_size", JInt(16)>> >>,
     ext |-> ""]

\* GTTSService(lang, tld, create_subcaption) and KokoroService(lang_code,
\* voice, create_subcaption) as the constructors stand: create_subcaption is
\* given by position to SpeechService.__init__(self, **service_kwargs), which
\* takes no positional argument, and the call raises TypeError
GTTSService(lang, tld, create_subcaption) ==
    [status |-> "TypeError", value |-> [name |-> "", kwargs |-> <<>>, ext |-> ""]]

KokoroService(lang_code, voice, create_subcaption) ==
    [status |-> "TypeError", value |-> [name |-> "", kwargs |-> <<>>, ext |-> ""]]

\* the services the scenes register: a GTTSService and a KokoroService as
\* SpeechService.__init__(self, create_subcaption, **service_kwargs) of
\* speech/base.py leaves them, service_kwargs holding the other arguments
gtts_service ==
    [name |-> "GTTSService",
     kwargs |-> << <<"lang", JStr("en")>>, <<"tld", JStr("com")>> >>,
     ext |-> ".mp3"]

kokoro_service ==
    [name |-> "KokoroService",
     kwargs |-> << <<"lang_code", JStr("a")>>, <<"voice", JStr("af_heart")>> >>,
     ext |-> ".wav"]

AlignmentServices == << ManualAligner, CTCAligner >>
SpeechServices    == << gtts_service, kokoro_service >>

(***************************************************************************)
(* Texts of the narrations.                                                *)
(***************************************************************************)
\* x<bookmark mark='A'/>yz<bookmark mark='B'/>
TwoMarks ==
    << DataTok(<<"x">>), Bookmark("A"), DataTok(<<"y", "z">>), Bookmark("B") >>

\* x
NoMarks == << DataTok(<<"x">>) >>

\* <bookmark mark='A'/>x<bookmark mark='A'/>
SameMarks == << Bookmark("A"), DataTok(<<"x">>), Bookmark("A") >>

\* <bookmark mark='A'/>x<bookmark mark='B'>
OpenMark ==
    << Bookmark("A"), DataTok(<<"x">>),
       TagTok("start", bookmark, <<Attr(mark, <<"B">>)>>, "single") >>

\* x<bookmark/>
MissingMark ==
    << DataTok(<<"x">>), TagTok("startend", bookmark, <<>>, "single") >>

\* "_origin_", the name the tracker gives to the start of the narration
Origin == <<"_", "o", "r", "i", "g", "i", "n", "_">>

\* <bookmark mark='_origin_'/>x<bookmark mark='A'/>y
OriginMark ==
    << TagTok("startend", bookmark, <<Attr(mark, Origin)>>, "single"),
       DataTok(<<"x">>), Bookmark("A"), DataTok(<<"y">>) >>

RawTexts == << TwoMarks, NoMarks, SameMarks, OpenMark, MissingMark, OriginMark >>

\* xx<bookmark mark='_origin_'/>y<bookmark mark='A'/>
LateOrigin ==
    << DataTok(<<"x", "x">>),
       TagTok("startend", bookmark, <<Attr(mark, Origin)>>, "single"),
       DataTok(<<"y">>), Bookmark("A") >>

\* x <bookmark mark='A'/> y
Spaced == << DataTok(<<"x", " ">>), Bookmark("A"), DataTok(<<" ", "y">>) >>

\* x. x
Dotted == << DataTok(<<"x", ".", " ", "x">>) >>

\* the texts _get_speech is called with
SpeechTexts == << <<"x">>, <<"x", "y", "z">> >>

(***************************************************************************)
(* get_hash_from_data (utils.py:35-76).  A JSON value carries its type; a  *)
(* mapping holds its <<key, value>> pairs in insertion order.              *)
(***************************************************************************)

\* the keys of the mappings of the model, in the order sort_keys puts them
SortedKeys ==
    << "a", "b", "batch_size", "input_text", "lang", "lang_code", "language",
       "model_id", "raw_text", "service_kwargs", "service_name", "tld",
       "voice" >>

\* json.dumps without sort_keys at the nested levels
json_dumps_TopLevelOnly(data) ==
    IF data.t = "dict"
    THEN LET present == SelectSeq(SortedKeys,
                 LAMBDA key : \E i \in 1..Len(data.v) : data.v[i][1] = key)
         IN  JDict([j \in 1..Len(present) |->
                 data.v[CHOOSE i \in 1..Len(data.v) : data.v[i][1] = present[j]]])
    ELSE data

RECURSIVE json_dumps(_)
\* json.dumps(data, sort_keys=True, ...): the pairs of every mapping, at every
\* level, in the order of their keys
json_dumps(data) ==
    IF data.t = "dict"
    THEN LET present == SelectSeq(SortedKeys,
                 LAMBDA key : \E i \in 1..Len(data.v) : data.v[i][1] = key)
         IN  JDict([j \in 1..Len(present) |->
                 LET item == data.v[CHOOSE i \in 1..Len(data.v) :
                                        data.v[i][1] = present[j]]
                 IN  <<item[1], json_dumps(item[2])>>])
    ELSE IF data.t = "list"
    THEN JList([j \in 1..Len(data.v) |-> json_dumps(data.v[j])])
    ELSE data

\* self.service_kwargs, the keyword arguments the service was built with
service_kwargs(service) == JDict(service.kwargs)

AlignmentData(raw_text, service) ==
    JDict(<< <<"raw_text", JStr(raw_text)>>,
             <<"service_name", JStr(service.name)>>,
             <<"service_kwargs", service_kwargs(service)>> >>)

SpeechData(input_text, service) ==
    JDict(<< <<"input_text", JStr(input_text)>>,
             <<"service_name", JStr(service.name)>>,
             <<"service_kwargs", service_kwargs(service)>> >>)

\* the values get_hash_from_data is called with directly: mappings in two
\* insertion orders, at the top level, inside a nested mapping and inside a
\* list, mappings of other content, and values that are no mappings
HashInputs ==
    << JDict(<<>>),
       JDict(<< <<"a", JInt(1)>>, <<"b", JInt(2)>> >>),
       JDict(<< <<"b", JInt(2)>>, <<"a", JInt(1)>> >>),
       JDict(<< <<"a", JInt(2)>>, <<"b", JInt(1)>> >>),
       JDict(<< <<"service_name", JStr("S")>>,
                <<"service_kwargs",
                  JDict(<< <<"lang", JStr("en")>>, <<"tld", JStr("com")>> >>)>> >>),
       JDict(<< <<"service_kwargs",
                  JDict(<< <<"tld", JStr("com")>>, <<"lang", JStr("en")>> >>)>>,
                <<"service_name", JStr("S")>> >>),
       JDict(<< <<"service_name", JStr("S")>>,
                <<"service_kwargs",
                  JDict(<< <<"lang", JStr("com")>>, <<"tld", JStr("en")>> >>)>> >>),
       JDict(<< <<"a", JList(<< JDict(<< <<"a", JInt(1)>>, <<"b", JInt(2)>> >>) >>)>> >>),
       JDict(<< <<"a", JList(<< JDict(<< <<"b", JInt(2)>>, <<"a", JInt(1)>> >>) >>)>> >>),
       JList(<<>>),
       JList(<< JDict(<<>>) >>),
       JInt(2),
       JStr(<<>>) >>

\* the tokens of the texts that pass the validation of _align_bookmarks
GoodTokens ==
    << Bookmark("A"), Bookmark("B"),
       DataTok(<<"x">>), DataTok(<<" ">>),
       TagTok("startend", a_, <<>>, "double") >>

RECURSIVE Pow(_, _)
Pow(b, n) == IF n = 0 THEN 1 ELSE b * Pow(b, n - 1)

\* the n-th text of at most MaxMarks GoodTokens: the digits of n in base
\* Len(GoodTokens) + 1, the last digit standing for no token
GoodText(n) ==
    LET base   == Len(GoodTokens) + 1
        digits == [j \in 1..MaxMarks |-> ((n \div Pow(base, j - 1)) % base) + 1]
        kept   == SelectSeq(digits, LAMBDA d : d <= Len(GoodTokens))
    IN  [j \in 1..Len(kept) |-> GoodTokens[kept[j]]]

\* the documents hashed for the texts made of GoodTokens
GoodDocs ==
    [i \in 1..(Pow(Len(GoodTokens) + 1, MaxMarks) * Len(AlignmentServices)) |->
        json_dumps(AlignmentData(
            SourceText(GoodText((i - 1) \div Len(AlignmentServices))),
            AlignmentServices[((i - 1) % Len(AlignmentServices)) + 1]))]

\* every document the model hashes, in a fixed order
HashedDocs ==
    [i \in 1..(Len(RawTexts) * Len(AlignmentServices)) |->
        json_dumps(AlignmentData(
            SourceText(RawTexts[((i - 1) \div Len(AlignmentServices)) + 1]),
            AlignmentServices[((i - 1) % Len(AlignmentServices)) + 1]))]
    \o
    [i \in 1..(Len(SpeechTexts) * Len(SpeechServices)) |->
        json_dumps(SpeechData(
            SpeechTexts[((i - 1) \div Len(SpeechServices)) + 1],
            SpeechServices[((i - 1) % Len(SpeechServices)) + 1]))]
    \o GoodDocs
    \o [i \in 1..Len(HashInputs) |-> json_dumps(HashInputs[i])]
    \o << json_dumps(AlignmentData(SourceText(TwoMarks), InterpolationAligner)),
           json_dumps(AlignmentData(SourceText(NoMarks), InterpolationAligner)),
           json_dumps(AlignmentData(SourceText(LateOrigin), InterpolationAligner)),
           json_dumps(SpeechData(<<"x", "x", "y">>, kokoro_service)),
           json_dumps(AlignmentData(SourceText(Spaced), InterpolationAligner)),
           json_dumps(SpeechData(<<"x", " ", "y">>, kokoro_service)),
           json_dumps(AlignmentData(SourceText(Dotted), InterpolationAligner)),
           json_dumps(SpeechData(SourceText(Dotted), kokoro_service)) >>
    \o [i \in 1..Pow(Len(GoodTokens) + 1, MaxMarks) |->
           json_dumps(AlignmentData(SourceText(GoodText(i - 1)), InterpolationAligner))]

HexDigits ==
    << "0", "1", "2", "3", "4", "5", "6", "7",
       "8", "9", "a", "b", "c", "d", "e", "f" >>

RECURSIVE Hex(_, _)
\* n as a hex string of the given width
Hex(n, width) ==
    IF width = 0 THEN <<>>
    ELSE Hex(n \div 16, width - 1) \o << HexDigits[(n % 16) + 1] >>

RECURSIVE Pow16(_)
Pow16(n) == IF n = 0 THEN 1 ELSE 16 * Pow16(n - 1)

\* the place of a document among HashedDocs (0: a document no call of the
\* model hashes)
DocIndex(raw_data) == IndexOrZero(HashedDocs, raw_data)

\* hashlib.new("sha256").update(raw_data).hexdigest(): a digest of DigestLen
\* hex digits, different documents of HashedDocs having different digests
hexdigest(raw_data) ==
    Hex((37 * DocIndex(raw_data) + 11) % Pow16(DigestLen), DigestLen)

\* the names hashlib.new is called with: two algorithms with digests of
\* different lengths, one whose hexdigest() needs a length, one that does not
\* exist
HashAlgos == << "sha256", "md5", "shake_128", "nope" >>

\* h = hashlib.new(hash_algo); h.update(raw_data); h.hexdigest()
hashlib_hexdigest(algo, raw_data) ==
    IF algo = "sha256"
    THEN [status |-> "ok", value |-> hexdigest(raw_data)]
    ELSE IF algo = "md5"
    THEN [status |-> "ok",
          value |-> Hex((41 * DocIndex(raw_data) + 7) % Pow16(DigestLen - 1),
                        DigestLen - 1)]
    ELSE IF algo = "shake_128"
    THEN [status |-> "TypeError", value |-> <<>>]
    ELSE [status |-> "ValueError", value |-> <<>>]

\* the digest of a document (h is what hashlib made of it), cut to its first
\* hash_len digits when hash_len > 0
sliced(h, raw_data, len) ==
    [status |-> h.status,
     value  |-> IF h.status = "ok" /\ len > 0
                THEN SubSeq(h.value, 1,
                         IF len < Len(h.value) THEN len ELSE Len(h.value))
                ELSE h.value,
     hashed |-> IF h.status = "ValueError" THEN {} ELSE {raw_data}]

\* the lines of get_hash_from_data after json.dumps: hashlib.new, update,
\* hexdigest and the slice
hash_of(raw_data, algo, len) ==
    sliced(hashlib_hexdigest(algo, raw_data), raw_data, len)

\* get_hash_from_data that cuts the digest whatever the sign of hash_len
get_hash_from_data_call_AlwaysCuts(data, algo, len) ==
    IF data.t # "dict"
    THEN [status |-> "NotImplementedError", value |-> <<>>, hashed |-> {}]
    ELSE LET raw_data == json_dumps(data)
             h        == hashlib_hexdigest(algo, raw_data)
         IN  [status |-> h.status,
              value  |-> IF h.status = "ok"
                         THEN SubSeq(h.value, 1, IF len < 0 THEN 0 ELSE
                                  IF len < Len(h.value) THEN len ELSE Len(h.value))
                         ELSE <<>>,
              hashed |-> {raw_data}]

\* get_hash_from_data that hashes whatever json.dumps accepts
get_hash_from_data_call_AnyJson(data, algo, len) ==
    LET raw_data == json_dumps(data)
        h        == hashlib_hexdigest(algo, raw_data)
    IN  [status |-> h.status, value |-> h.value, hashed |-> {raw_data}]

\* get_hash_from_data(data, hash_algo, hash_len): how the call ends, the
\* digest it returns and the documents it has given to hashlib
get_hash_from_data_call(data, algo, len) ==
    IF data.t # "dict"
    THEN [status |-> "NotImplementedError", value |-> <<>>, hashed |-> {}]
    ELSE hash_of(json_dumps(data), algo, len)

\* the digest a call of get_hash_from_data returns
get_hash_from_data(data, algo, len) == get_hash_from_data_call(data, algo, len).value

(***************************************************************************)
(* Results of calls.  Every call yields a set of possible outcomes         *)
(* [status, msg, value, fs, calls]: status is "ok" or the exception        *)
(* raised, msg the exception's message, value the returned value, fs the   *)
(* files afterwards, calls the methods it invoked, in order, passed the    *)
(* arguments align_chars was called with.                                  *)
(***************************************************************************)
Outcome(status, value, files, calls) ==
    [status |-> status, msg |-> "", value |-> value, fs |-> files, calls |-> calls,
     passed |-> <<>>, cache |-> <<>>]

\* an exception; none stands where the returned value would
Raised(exception, msg, none, files, calls) ==
    [status |-> exception, msg |-> msg, value |-> none, fs |-> files, calls |-> calls,
     passed |-> <<>>, cache |-> <<>>]

\* the outcome o of a call that accessed the alignment cache: exists, load
\* and dump on the .json file of the request, in this order
Accessing(o, accesses) == [o EXCEPT !.cache = accesses]

\* the outcome o of a call that called align_chars(txt, char_offsets, ...)
Passing(o, txt, char_offsets, audio_file_path) ==
    [o EXCEPT !.passed = << [text |-> txt, char_offsets |-> char_offsets,
                             audio_file_path |-> audio_file_path] >>]

NoPath == [dir |-> <<>>, stem |-> <<>>, suffix |-> ""]

(***************************************************************************)
(* AlignmentService (alignment/aligner_base.py).                           *)
(***************************************************************************)
\* round(x, 3) of x = num / den ticks, x >= 0: the whole number of
\* milliseconds nearest to x, in ticks.  The float x is only near num / den,
\* so when num / den lies halfway between two milliseconds the result is the
\* upper one or the lower one (up).
round3(num, den, up) ==
    LET lo   == (num \div (den * TicksPerMs)) * TicksPerMs
        rest == 2 * (num - lo * den)
    IN  IF rest < TicksPerMs * den THEN lo
        ELSE IF rest > TicksPerMs * den THEN lo + TicksPerMs
        ELSE IF up THEN lo + TicksPerMs ELSE lo

\* an aligner returning the offsets as the timestamps
manual_align_chars_Identity(raw_text, char_offsets, audio_file_path) ==
    { [status |-> "ok", value |-> char_offsets, reads |-> {}] }

\* ManualAligner.align_chars: (0,) * len(char_offsets)
manual_align_chars(raw_text, char_offsets, audio_file_path) ==
    { [status |-> "ok", value |-> [i \in 1..Len(char_offsets) |-> 0], reads |-> {}] }

\* an interpolation that truncates to the millisecond instead of rounding
interpolate_Truncated(duration, txt, char_offsets) ==
    IF char_offsets = <<>> THEN { [status |-> "ok", value |-> <<>>] }
    ELSE IF Len(txt) = 0 THEN { [status |-> "ZeroDivisionError", value |-> <<>>] }
    ELSE { [status |-> "ok",
            value |-> [i \in 1..Len(char_offsets) |->
                         ((duration * char_offsets[i]) \div (Len(txt) * TicksPerMs))
                         * TicksPerMs]] }

\* tuple(round(duration * offset / len(text), 3) for offset in char_offsets),
\* duration being get_duration(audio_file_path) in ticks
interpolate(duration, txt, char_offsets) ==
    IF char_offsets = <<>> THEN { [status |-> "ok", value |-> <<>>] }
    ELSE IF Len(txt) = 0 THEN { [status |-> "ZeroDivisionError", value |-> <<>>] }
    ELSE { [status |-> "ok",
             value |-> [i \in 1..Len(char_offsets) |->
                          round3(duration * char_offsets[i], Len(txt),
                                 up[char_offsets[i]])]] :
             up \in [Range(char_offsets) -> BOOLEAN] }

\* the durations get_duration finds for the audio files of the narrations
Durations == {0, 2}

\* InterpolationAligner.align_chars: the audio file is read for its duration
interpolation_align_chars(txt, char_offsets, audio_file_path) ==
    { [status |-> r.status, value |-> r.value, reads |-> {audio_file_path}] :
        r \in UNION { interpolate(duration, txt, char_offsets) :
                        duration \in Durations } }

\* align_chars of the model-based aligner (ctc.py:53-99): an external
\* computation that raises or finds the start of every character of the text
\* (timestamps), of which the ones at the offsets are returned; an offset at
\* the end of the text is past the last character
ctc_align_chars(txt, char_offsets, audio_file_path) ==
    { IF \E i \in 1..Len(char_offsets) : char_offsets[i] >= Len(txt)
      THEN [status |-> "IndexError", value |-> <<>>, reads |-> {audio_file_path}]
      ELSE [status |-> "ok",
            value |-> [i \in 1..Len(char_offsets) |-> timestamps[char_offsets[i] + 1]],
            reads |-> {audio_file_path}] :
      timestamps \in [1..Len(txt) -> 0..MaxTs] }
    \cup { [status |-> "RuntimeError", value |-> <<>>, reads |-> {audio_file_path}] }

\* service.align_chars(text, char_offsets, audio_file_path), dispatched on the
\* class of the service
align_chars(service, txt, char_offsets, audio_file_path) ==
    IF service.name = "ManualAligner"
    THEN manual_align_chars(txt, char_offsets, audio_file_path)
    ELSE IF service.name = "InterpolationAligner"
    THEN interpolation_align_chars(txt, char_offsets, audio_file_path)
    ELSE ctc_align_chars(txt, char_offsets, audio_file_path)

\* _align_chars_and_cache without the write to the cache
_align_chars_and_cache_NoCacheWrite(service, txt, char_offsets, audio_file_path, alignment_data, files) ==
    { IF r.status = "ok"
      THEN Outcome("ok", r.value, files, <<"align_chars">>)
      ELSE Raised(r.status, "", <<>>, files, <<"align_chars">>) :
      r \in align_chars(service, txt, char_offsets, audio_file_path) }

\* a cache that opens the .json file for writing before align_chars is called:
\* a call that raises leaves an empty entry behind
_align_chars_and_cache_OpensFirst(service, txt, char_offsets, audio_file_path, alignment_data, files) ==
    LET json_file_base_name == get_hash_from_data(alignment_data, hash_algo, hash_len)
        json_file_path ==
            with_suffix(Path(audio_file_path.dir, json_file_base_name, ""), ".json")
    IN  IF exists(files, json_file_path)
        THEN { Accessing(Outcome("ok", json_load(files[json_file_path]), files, <<>>),
                         <<"exists", "load">>) }
        ELSE { IF r.status = "ok"
               THEN Outcome("ok", r.value,
                            write(files, json_file_path, json_dump(r.value)),
                            <<"align_chars">>)
               ELSE Raised(r.status, "", <<>>,
                           write(files, json_file_path, json_dump(<<>>)),
                           <<"align_chars">>) :
               r \in align_chars(service, txt, char_offsets, audio_file_path) }

_align_chars_and_cache(service, txt, char_offsets, audio_file_path, alignment_data, files) ==
    LET json_file_base_name == get_hash_from_data(alignment_data, hash_algo, hash_len)
        json_file_path ==
            with_suffix(Path(audio_file_path.dir, json_file_base_name, ""), ".json")
    IN  IF exists(files, json_file_path)
        THEN { Accessing(Outcome("ok", json_load(files[json_file_path]), files, <<>>),
                         <<"exists", "load">>) }
        ELSE { Passing(IF r.status = "ok"
                       THEN Accessing(Outcome("ok", r.value,
                                        write(files, json_file_path, json_dump(r.value)),
                                        <<"align_chars">>),
                                      <<"exists", "dump">>)
                       ELSE Accessing(Raised(r.status, "", <<>>, files, <<"align_chars">>),
                                      <<"exists">>),
                       txt, char_offsets, audio_file_path) :
               r \in align_chars(service, txt, char_offsets, audio_file_path) }

\* tag.attrs.get(key): [isStr, str], a string or None
attrs_get(attrs, key) ==
    LET found == { i \in 1..Len(attrs) : attrs[i].key = key }
    IN  IF found # {} /\ attrs[CHOOSE i \in found : \A j \in found : j <= i].hasValue
        THEN [isStr |-> TRUE,
              str |-> attrs[CHOOSE i \in found : \A j \in found : j <= i].value]
        ELSE [isStr |-> FALSE, str |-> <<>>]

all_strings(sequence) == \A i \in 1..Len(sequence) : sequence[i].isStr

\* the uniqueness check finding nothing
has_duplicates_Never(marks) == FALSE

\* len(marks) != len(set(marks))
has_duplicates(marks) == Len(marks) # Cardinality(Range(marks))

\* dict(zip(marks, bk_tuple, strict=True)), the marks being distinct strings
bk_dict(marks, bk_tuple) ==
    [m \in { marks[i].str : i \in 1..Len(marks) } |->
        bk_tuple[CHOOSE i \in 1..Len(marks) : marks[i].str = m]]

\* _align_bookmarks that goes to the cache first and looks at the bookmark
\* tags afterwards
_align_bookmarks_CacheFirst(service, raw_text, audio_file_path, files) ==
    LET alignment_data == AlignmentData(SourceText(raw_text), service)
        p     == feed(TagParser(Names({bookmark_mapping}), DEFAULT), raw_text)
        marks == [i \in 1..Len(p.tags) |-> attrs_get(p.tags[i].attrs, mark)]
    IN  { [ IF o.status # "ok"
            THEN Raised(o.status, o.msg, EmptyMap, o.fs, o.calls)
            ELSE IF \E i \in 1..Len(p.tags) : p.tags[i].kind # "startend"
            THEN Raised("AlignmentError", "Bookmarks should be self-closing tags",
                        EmptyMap, o.fs, o.calls)
            ELSE IF has_duplicates(marks)
            THEN Raised("AlignmentError", "Each bookmark should have a unique name.",
                        EmptyMap, o.fs, o.calls)
            ELSE IF ~all_strings(marks)
            THEN Raised("AlignmentError", "Bookmarks must define a mark attribute.",
                        EmptyMap, o.fs, o.calls)
            ELSE IF Len(o.value) # Len(marks)
            THEN Raised("ValueError", "zip() arguments differ in length",
                        EmptyMap, o.fs, o.calls)
            ELSE Outcome("ok", bk_dict(marks, o.value), o.fs, o.calls)
            EXCEPT !.passed = o.passed, !.cache = o.cache ] :
          o \in _align_chars_and_cache(
                   service, text(p),
                   [i \in 1..Len(p.tags) |-> p.tags[i].offset],
                   audio_file_path, alignment_data, files) }

_align_bookmarks(service, raw_text, audio_file_path, files) ==
    LET alignment_data == AlignmentData(SourceText(raw_text), service)
        p     == feed(TagParser(Names({bookmark_mapping}), DEFAULT), raw_text)
        marks == [i \in 1..Len(p.tags) |-> attrs_get(p.tags[i].attrs, mark)]
    IN  IF \E i \in 1..Len(p.tags) : p.tags[i].kind # "startend"
        THEN { Raised("AlignmentError", "Bookmarks should be self-closing tags",
                      EmptyMap, files, <<>>) }
        ELSE IF has_duplicates(marks)
        THEN { Raised("AlignmentError", "Each bookmark should have a unique name.",
                      EmptyMap, files, <<>>) }
        ELSE IF ~all_strings(marks)
        THEN { Raised("AlignmentError", "Bookmarks must define a mark attribute.",
                      EmptyMap, files, <<>>) }
        ELSE { [ IF o.status # "ok"
                 THEN Raised(o.status, o.msg, EmptyMap, o.fs, o.calls)
                 ELSE IF Len(o.value) # Len(marks)
                 THEN Raised("ValueError", "zip() arguments differ in length",
                             EmptyMap, o.fs, o.calls)
                 ELSE Outcome("ok", bk_dict(marks, o.value), o.fs, o.calls)
                 EXCEPT !.passed = o.passed, !.cache = o.cache ] :
               o \in _align_chars_and_cache(
                        service, text(p),
                        [i \in 1..Len(p.tags) |-> p.tags[i].offset],
                        audio_file_path, alignment_data, files) }

(***************************************************************************)
(* SpeechService (speech/speech_base.py) and audio_utils.convert_to_wav.   *)
(***************************************************************************)
Audio(format, speech, complete) ==
    [kind |-> "audio", format |-> format, speech |-> speech, complete |-> complete]

\* the audio a KPipeline generator can yield last: the pipeline cuts the text
\* into chunks and every chunk overwrites the file of the one before it
last_chunks(txt) == { SubSeq(txt, k, Len(txt)) : k \in 1..Len(txt) }

\* GTTSService.generate_speech (gtts.py:46-68): gTTSError becomes
\* SpeechServiceError, whether gtts.gTTS raised it (nothing written) or
\* tts.save did (the file opened, a part of it written); any other exception,
\* such as the OSError of the open in tts.save, leaves the method as it is.
gtts_generate_speech(service, txt, audio_file_path, files) ==
    { [status |-> "ok", value |-> audio_file_path,
       fs |-> write(files, audio_file_path, Audio(service.ext, txt, TRUE))],
      [status |-> "SpeechServiceError", value |-> audio_file_path, fs |-> files],
      [status |-> "SpeechServiceError", value |-> audio_file_path,
       fs |-> write(files, audio_file_path, Audio(service.ext, txt, FALSE))],
      [status |-> "OSError", value |-> audio_file_path, fs |-> files] }

\* KokoroService.generate_speech (kokoro.py:35-39): sf.write once per chunk
\* of the generator, each write replacing the file with the whole audio of
\* the chunk, and no except clause: the file holds the last chunk, no file is
\* written when there is no chunk, and what the pipeline or sf.write raises
\* leaves the method as it is, with the file as it was (no chunk written
\* yet), holding the whole audio of the chunk written last (the pipeline
\* raised at a later chunk) or holding a part (sf.write raised).
kokoro_generate_speech(service, txt, audio_file_path, files) ==
    { [status |-> "ok", value |-> audio_file_path,
       fs |-> write(files, audio_file_path, Audio(service.ext, chunk, TRUE))] :
      chunk \in last_chunks(txt) }
    \cup
    UNION { { [status |-> "RuntimeError", value |-> audio_file_path,
               fs |-> write(files, audio_file_path,
                            Audio(service.ext, SubSeq(txt, i, j), TRUE))] :
              i \in 1..j } :
            j \in 1..(Len(txt) - 1) }
    \cup
    { [status |-> "ok", value |-> audio_file_path, fs |-> files],
      [status |-> "RuntimeError", value |-> audio_file_path, fs |-> files],
      [status |-> "RuntimeError", value |-> audio_file_path,
       fs |-> write(files, audio_file_path, Audio(service.ext, txt, FALSE))] }

\* service.generate_speech(text, audio_file_path) of the concrete services
generate_speech(service, txt, audio_file_path, files) ==
    IF service.name = "GTTSService"
    THEN gtts_generate_speech(service, txt, audio_file_path, files)
    ELSE kokoro_generate_speech(service, txt, audio_file_path, files)

\* convert_to_wav leaving the file in the format it has
convert_to_wav_KeepsFormat(file_path, files) ==
    IF ~exists(files, file_path)
    THEN [status |-> "NarrationAudioError", value |-> file_path, fs |-> files]
    ELSE [status |-> "ok", value |-> file_path, fs |-> files]

\* convert_to_wav called with rm_original = False
convert_to_wav_KeepsOriginal(file_path, files) ==
    IF ~exists(files, file_path)
    THEN [status |-> "NarrationAudioError", value |-> file_path, fs |-> files]
    ELSE IF file_path.suffix = ".wav"
    THEN [status |-> "ok", value |-> file_path, fs |-> files]
    ELSE LET wav_file == with_suffix(Path(file_path.dir, file_path.stem, ""), ".wav")
         IN  [status |-> "ok", value |-> wav_file,
              fs |-> write(files, wav_file,
                           [files[file_path] EXCEPT !.format = ".wav"])]

\* audio_utils.convert_to_wav(file_path), rm_original = True
convert_to_wav(file_path, files) ==
    IF ~exists(files, file_path)
    THEN [status |-> "NarrationAudioError", value |-> file_path, fs |-> files]
    ELSE IF file_path.suffix = ".wav"
    THEN [status |-> "ok", value |-> file_path, fs |-> files]
    ELSE LET wav_file == with_suffix(Path(file_path.dir, file_path.stem, ""), ".wav")
         IN  [status |-> "ok", value |-> wav_file,
              fs |-> unlink(write(files, wav_file,
                                  [files[file_path] EXCEPT !.format = ".wav"]),
                            file_path)]

\* SpeechService.audio_callback
audio_callback(audio_file_path) == audio_file_path

_get_path_to_file_in_cache(speech_data, stem, suffix) ==
    LET dir_in_cache == get_hash_from_data(speech_data, hash_algo, hash_len)
    IN  Path(<<cache_dir, dir_in_cache>>, stem, suffix)

_get_speech(service, txt, files) ==
    LET speech_data     == SpeechData(txt, service)
        file_basename   == audio_file_base_name
        audio_file_path == _get_path_to_file_in_cache(speech_data, file_basename, ".wav")
    IN  IF exists(files, audio_file_path)
        THEN { Outcome("ok", audio_file_path, files, <<>>) }
        ELSE { IF g.status # "ok"
               THEN Raised(g.status, "", NoPath, g.fs, <<"generate_speech">>)
               ELSE LET c == convert_to_wav(g.value, g.fs)
                    IN  IF c.status # "ok"
                        THEN Raised(c.status, "does not exist or is not a file.",
                                    NoPath, c.fs,
                                    <<"generate_speech", "convert_to_wav">>)
                        ELSE Outcome("ok", audio_callback(c.value), c.fs,
                                     <<"generate_speech", "convert_to_wav",
                                       "audio_callback">>) :
               g \in generate_speech(service, txt,
                                     with_suffix(audio_file_path, service.ext), files) }

(***************************************************************************)
(* NarrationTracker (tracker.py).                                          *)
(***************************************************************************)
NoTracker == [alive |-> FALSE]

\* NarrationTracker.__init__; duration is get_duration(audio_file_path)
NarrationTracker(start_time, raw_text, audio_file_path, duration) ==
    [alive               |-> TRUE,
     raw_text            |-> raw_text,
     audio_file_path     |-> audio_file_path,
     start_time          |-> start_time,
     duration            |-> duration,
     end_time            |-> start_time + duration,
     current_bookmark    |-> Origin,
     bookmark_timestamps |-> EmptyMap]

\* a reading of the time left that is not clamped at zero
remaining_duration_Unclamped(t, time) == t.end_time - time

remaining_duration(t, time) == Max(t.end_time - time, 0)

RECURSIVE Str(_)
\* a sequence of characters as one string
Str(chars) == IF chars = <<>> THEN "" ELSE Head(chars) \o Str(Tail(chars))

\* the backquote character, which a string of this language cannot hold,
\* written as its escape
Backquote == "\\u0060"

\* f"The bookmark `{target_mark}` does not exist."
DoesNotExist(target_mark) ==
    "The bookmark " \o Backquote \o Str(target_mark) \o Backquote \o " does not exist."

\* a lookup taking an unknown target for the start of the narration
lookup_bookmarks_UnknownIsOrigin(t, bk_ts, target_mark, files, calls) ==
    [status |-> "ok", msg |-> "",
     value |-> (IF target_mark \in DOMAIN bk_ts THEN bk_ts[target_mark] ELSE 0)
               - bk_ts[t.current_bookmark],
     fs |-> files, calls |-> calls, tracker |-> t]

\* a lookup that moves the tracker to the bookmark it has found
lookup_bookmarks_MovesCurrent(t, bk_ts, target_mark, files, calls) ==
    IF target_mark \notin DOMAIN bk_ts
    THEN [status |-> "AlignmentError", msg |-> DoesNotExist(target_mark),
          value |-> 0, fs |-> files, calls |-> calls, tracker |-> t]
    ELSE [status |-> "ok", msg |-> "",
          value |-> bk_ts[target_mark] - bk_ts[t.current_bookmark],
          fs |-> files, calls |-> calls,
          tracker |-> [t EXCEPT !.current_bookmark = target_mark]]

\* the second half of duration_until_bookmark: the two lookups
lookup_bookmarks(t, bk_ts, target_mark, files, calls) ==
    IF t.current_bookmark \notin DOMAIN bk_ts
    THEN [status |-> "KeyError", msg |-> "", value |-> 0,
          fs |-> files, calls |-> calls, tracker |-> t]
    ELSE IF target_mark \notin DOMAIN bk_ts
    THEN [status |-> "AlignmentError", msg |-> DoesNotExist(target_mark),
          value |-> 0, fs |-> files, calls |-> calls, tracker |-> t]
    ELSE [status |-> "ok", msg |-> "",
          value |-> bk_ts[target_mark] - bk_ts[t.current_bookmark],
          fs |-> files, calls |-> calls, tracker |-> t]

\* duration_until_bookmark aligning on every call
duration_until_bookmark_AlwaysAligns(t, service, target_mark, files) ==
    { IF o.status # "ok"
      THEN [status |-> o.status, msg |-> o.msg, value |-> 0, fs |-> o.fs,
            calls |-> <<"_align_bookmarks">> \o o.calls, tracker |-> t]
      ELSE LET bk_ts == Merge((Origin :> 0), o.value)
           IN  lookup_bookmarks([t EXCEPT !.bookmark_timestamps = bk_ts],
                                bk_ts, target_mark, o.fs,
                                <<"_align_bookmarks">> \o o.calls) :
      o \in _align_bookmarks(service, t.raw_text, t.audio_file_path, files) }

\* NarrationTracker.duration_until_bookmark: the possible outcomes, each with
\* the tracker as the call leaves it
duration_until_bookmark(t, service, target_mark, files) ==
    IF DOMAIN t.bookmark_timestamps = {}
    THEN { IF o.status # "ok"
           THEN [status |-> o.status, msg |-> o.msg, value |-> 0, fs |-> o.fs,
                 calls |-> <<"_align_bookmarks">> \o o.calls, tracker |-> t]
           ELSE LET bk_ts == Merge((Origin :> 0), o.value)
                IN  lookup_bookmarks([t EXCEPT !.bookmark_timestamps = bk_ts],
                                     bk_ts, target_mark, o.fs,
                                     <<"_align_bookmarks">> \o o.calls) :
           o \in _align_bookmarks(service, t.raw_text, t.audio_file_path, files) }
    ELSE { lookup_bookmarks(t, t.bookmark_timestamps, target_mark, files, <<>>) }

(***************************************************************************)
(* Book-keeping of the calls made and the values returned.                 *)
(***************************************************************************)
Request(service, txt, audio_file_path) ==
    [service |-> service, text |-> txt, audio |-> audio_file_path]

Call(fn, by, req) == [fn |-> fn, by |-> by, req |-> req]

Count(bag, c) == IF c \in DOMAIN bag THEN bag[c] ELSE 0

RECURSIVE Record(_, _, _, _)
\* the bag with the calls fns, made by `by` for request `req`, added
Record(bag, fns, by, req) ==
    IF fns = <<>> THEN bag
    ELSE LET c == Call(Head(fns), by, req)
         IN  Record(write(bag, c, Count(bag, c) + 1), Tail(fns), by, req)

\* number of calls of fn so far
Calls(fn) == SumOver({ c \in DOMAIN invoked : c.fn = fn }, invoked)

\* calls of fn so far for one request
CallsFor(fn, req) ==
    SumOver({ c \in DOMAIN invoked : c.fn = fn /\ c.req = req }, invoked)

Returned(fn, req) ==
    LET c == Call(fn, "", req)
    IN  IF c \in DOMAIN returned THEN returned[c] ELSE {}

Return(fn, req, value) ==
    write(returned, Call(fn, "", req), Returned(fn, req) \cup {value})

Ret(op, args, o) ==
    [op |-> op, args |-> args, status |-> o.status, msg |-> o.msg, value |-> o.value]

NoCall == [op |-> "", args |-> <<>>, status |-> "", msg |-> "", value |-> <<>>]

\* the result of a call together with what it passed to align_chars
RetPassing(op, args, o) ==
    [op |-> op, args |-> args, status |-> o.status, msg |-> o.msg, value |-> o.value,
     passed |-> o.passed]

(***************************************************************************)
(* Inputs of the cache and tracker models.                                 *)
(***************************************************************************)
\* the audio file of the narration being tracked or aligned
NarrationAudio ==
    _get_path_to_file_in_cache(SpeechData(SpeechTexts[1], gtts_service),
                               audio_file_base_name, ".wav")

Targets == { Origin, <<"A">>, <<"B">>, <<"Z">> }

\* the cache directory holding the narration's audio and nothing else
AudioOnly == (NarrationAudio :> Audio(".wav", SpeechTexts[1], TRUE))

IdleParser == parser = TagParser(DEFAULT, DEFAULT) /\ fed = <<>>

IdleTracker ==
    /\ tracker = NoTracker
    /\ scene_time = 0
    /\ alignment_service = ManualAligner

IdleCache ==
    /\ ret = NoCall
    /\ invoked = EmptyMap
    /\ returned = EmptyMap

IdleRace == procs = <<>>

\* before NarrationScene.__init__
NoScene == [alive |-> FALSE]

IdleScene == scene = NoScene

\* before `import manim_narration`
NoModule == [imported |-> FALSE]

IdleModule == namespace = NoModule

(***************************************************************************)
(* The parser as a state machine: construction, then feed calls.           *)
(***************************************************************************)
InitParser ==
    /\ \E rec \in Selectors, rem \in Selectors : parser = TagParser(rec, rem)
    /\ fed = <<>>
    /\ fs = EmptyMap
    /\ IdleTracker
    /\ IdleCache
    /\ IdleRace
    /\ IdleScene
    /\ IdleModule

\* parser.feed(SourceOf(tok))
Feed(tok) ==
    /\ \/ tok \in FreeTokens /\ Len(fed) < MaxTokens
       \/ IsPrefix(Append(fed, tok), Scenario)
    /\ parser' = goahead(parser, tok)
    /\ fed' = Append(fed, tok)
    /\ UNCHANGED <<moduleVars, sceneVars, fs, trackerVars, ret, invoked, returned, raceVars>>

NextParser == \E tok \in Tokens : Feed(tok)

SpecParser == InitParser /\ [][NextParser]_vars

(***************************************************************************)
(* The tracker as a state machine: one tracker is constructed for a        *)
(* narration whose audio is in the cache, then queried while the scene     *)
(* time advances; the caller moves current_bookmark to a bookmark it has   *)
(* waited for.                                                             *)
(***************************************************************************)
InitTracker ==
    /\ IdleParser
    /\ fs = AudioOnly
    /\ tracker = NoTracker
    /\ scene_time \in 0..1
    /\ alignment_service \in Range(AlignmentServices)
    /\ IdleCache
    /\ IdleRace
    /\ IdleScene
    /\ IdleModule

\* NarrationTracker(scene, scene.time, raw_text, audio_file_path)
Construct(raw_text, duration) ==
    /\ ~tracker.alive
    /\ tracker' = NarrationTracker(scene_time, raw_text, NarrationAudio, duration)
    /\ ret' = [NoCall EXCEPT !.op = "__init__", !.status = "ok"]
    /\ UNCHANGED <<moduleVars, sceneVars, parserVars, raceVars, fs, scene_time, alignment_service, invoked, returned>>

\* tracker.remaining_duration
RemainingDuration ==
    /\ tracker.alive
    /\ ret' = [NoCall EXCEPT !.op = "remaining_duration", !.status = "ok",
                             !.value = remaining_duration(tracker, scene_time)]
    /\ UNCHANGED <<moduleVars, sceneVars, parserVars, raceVars, fs, trackerVars, invoked, returned>>

\* tracker.duration_until_bookmark(target_mark)
DurationUntilBookmark(target_mark) ==
    /\ tracker.alive
    /\ \/ DOMAIN tracker.bookmark_timestamps # {}
       \/ Calls("_align_bookmarks") < MaxCalls
    /\ \E o \in duration_until_bookmark(tracker, alignment_service, target_mark, fs) :
          /\ tracker' = o.tracker
          /\ fs' = o.fs
          /\ invoked' = Record(invoked, o.calls, "duration_until_bookmark",
                               Request(alignment_service,
                                       SourceText(tracker.raw_text),
                                       tracker.audio_file_path))
          /\ ret' = Ret("duration_until_bookmark", target_mark, o)
    /\ UNCHANGED <<moduleVars, sceneVars, parserVars, raceVars, scene_time, alignment_service, returned>>

\* tracker.current_bookmark = target_mark, as wait_until_bookmark does after
\* the lookup of target_mark has succeeded
SetCurrentBookmark(target_mark) ==
    /\ tracker.alive
    /\ target_mark \in DOMAIN tracker.bookmark_timestamps
    /\ tracker' = [tracker EXCEPT !.current_bookmark = target_mark]
    /\ ret' = [NoCall EXCEPT !.op = "current_bookmark", !.status = "ok"]
    /\ UNCHANGED <<moduleVars, sceneVars, parserVars, raceVars, fs, scene_time, alignment_service, invoked, returned>>

\* the scene plays on
Tick ==
    /\ scene_time < MaxTime
    /\ scene_time' = scene_time + 1
    /\ ret' = NoCall
    /\ UNCHANGED <<moduleVars, sceneVars, parserVars, raceVars, fs, tracker, alignment_service, invoked, returned>>

NextTracker ==
    \/ \E raw_text \in Range(RawTexts), duration \in Durations :
          Construct(raw_text, duration)
    \/ RemainingDuration
    \/ \E target_mark \in Targets : DurationUntilBookmark(target_mark)
    \/ \E target_mark \in Targets : SetCurrentBookmark(target_mark)
    \/ Tick

SpecTracker == InitTracker /\ [][NextTracker]_vars

(***************************************************************************)
(* The alignment service as a state machine: _align_bookmarks is called    *)
(* for narrations whose audio is in the cache, which starts without any    *)
(* alignment file.                                                         *)
(***************************************************************************)
InitAlign ==
    /\ IdleParser
    /\ fs = AudioOnly
    /\ IdleTracker
    /\ IdleCache
    /\ IdleRace
    /\ IdleScene
    /\ IdleModule

\* service._align_bookmarks(raw_text, audio_file_path)
AlignBookmarks(service, raw_text) ==
    /\ Calls("_align_bookmarks") < MaxCalls
    /\ LET req == Request(service, SourceText(raw_text), NarrationAudio)
       IN  \E o \in _align_bookmarks(service, raw_text, NarrationAudio, fs) :
              /\ fs' = o.fs
              /\ invoked' = Record(invoked, <<"_align_bookmarks">> \o o.calls,
                                   "caller", req)
              /\ returned' = IF o.status = "ok"
                             THEN Return("_align_bookmarks", req, o.value)
                             ELSE returned
              /\ ret' = Ret("_align_bookmarks", req, o)
    /\ UNCHANGED <<moduleVars, sceneVars, parserVars, raceVars, trackerVars>>

NextAlign ==
    \E service \in Range(AlignmentServices),
       raw_text \in {TwoMarks, NoMarks, SameMarks, OriginMark} :
        AlignBookmarks(service, raw_text)

SpecAlign == InitAlign /\ [][NextAlign]_vars

(***************************************************************************)
(* The speech service as a state machine: _get_speech is called on an      *)
(* empty cache directory.                                                  *)
(***************************************************************************)
InitSpeech ==
    /\ IdleParser
    /\ fs = EmptyMap
    /\ IdleTracker
    /\ IdleCache
    /\ IdleRace
    /\ IdleScene
    /\ IdleModule

\* service._get_speech(text)
GetSpeech(service, txt) ==
    /\ Calls("_get_speech") < MaxCalls
    /\ LET req == Request(service, txt, <<>>)
       IN  \E o \in _get_speech(service, txt, fs) :
              /\ fs' = o.fs
              /\ invoked' = Record(invoked, <<"_get_speech">> \o o.calls,
                                   "caller", req)
              /\ returned' = IF o.status = "ok"
                             THEN Return("_get_speech", req, o.value)
                             ELSE returned
              /\ ret' = Ret("_get_speech", req, o)
    /\ UNCHANGED <<moduleVars, sceneVars, parserVars, raceVars, trackerVars>>

NextSpeech ==
    \E service \in Range(SpeechServices), txt \in Range(SpeechTexts) :
        GetSpeech(service, txt)

SpecSpeech == InitSpeech /\ [][NextSpeech]_vars

(***************************************************************************)
(* Two processes sharing the cache directory.  Both request the same       *)
(* descriptor; each runs _align_chars_and_cache (aligner_base.py:96-117)   *)
(* or _get_speech (speech_base.py:113-139) one file-system call at a time. *)
(* A file is empty between the open("w") that creates or truncates it and  *)
(* the write that fills it.                                                *)
(***************************************************************************)
NumProcs == 2

Procs == 1..NumProcs

\* the content of a file that was opened for writing and not yet written
EmptyFile == [kind |-> "empty"]

IsComplete(content) ==
    \/ content.kind = "json"
    \/ content.kind = "audio" /\ content.complete

\* "complete", "partial" or "missing": what a reader of path finds
StateOf(files, path) ==
    IF ~exists(files, path) THEN "missing"
    ELSE IF IsComplete(files[path]) THEN "complete" ELSE "partial"

AlignJob(service) == [kind |-> "align", service |-> service]

SpeechJob(service) == [kind |-> "speech", service |-> service]

Jobs ==
    { AlignJob(service) : service \in Range(AlignmentServices) }
    \cup { SpeechJob(service) : service \in Range(SpeechServices) }

\* json_file_path of _align_chars_and_cache for the job
JsonPath(job) ==
    with_suffix(
        Path(NarrationAudio.dir,
             get_hash_from_data(AlignmentData(SourceText(TwoMarks), job.service),
                                hash_algo, hash_len),
             ""),
        ".json")

\* audio_file_path of _get_speech for the job
WavPath(job) ==
    _get_path_to_file_in_cache(SpeechData(SpeechTexts[1], job.service),
                               audio_file_base_name, ".wav")

\* a process before its call: local is align_chars' tuple or the path in hand
Process(job) ==
    [job |-> job, pc |-> "start", status |-> "", read |-> "",
     local |-> IF job.kind = "align" THEN <<>> ELSE NoPath,
     value |-> IF job.kind = "align" THEN <<>> ELSE NoPath]

Done(proc, status, read, value) ==
    [proc EXCEPT !.pc = "done", !.status = status, !.read = read, !.value = value]

At(p, kind, pc) ==
    /\ procs # <<>>
    /\ procs[p].job.kind = kind
    /\ procs[p].pc = pc

Goto(p, pc) == procs' = [procs EXCEPT ![p].pc = pc]

RaceRequest(job) ==
    IF job.kind = "align"
    THEN Request(job.service, SourceText(TwoMarks), NarrationAudio)
    ELSE Request(job.service, SpeechTexts[1], <<>>)

InitRace ==
    /\ IdleParser
    /\ IdleTracker
    /\ IdleCache
    /\ IdleScene
    /\ IdleModule
    /\ \E job \in Jobs :
          /\ procs = [p \in Procs |-> Process(job)]
          /\ fs = IF job.kind = "align" THEN AudioOnly ELSE EmptyMap

\* if json_file_path.exists():
AlignExists(p) ==
    /\ At(p, "align", "start")
    /\ Goto(p, IF exists(fs, JsonPath(procs[p].job)) THEN "load" ELSE "align_chars")
    /\ UNCHANGED <<moduleVars, sceneVars, parserVars, trackerVars, cacheVars>>

\* with json_file_path.open() as json_file: return tuple(json.load(json_file))
AlignLoad(p) ==
    /\ At(p, "align", "load")
    /\ LET path == JsonPath(procs[p].job)
       IN  procs' = [procs EXCEPT ![p] =
                IF StateOf(fs, path) = "complete"
                THEN Done(@, "ok", "complete", json_load(fs[path]))
                ELSE Done(@, "JSONDecodeError", StateOf(fs, path), <<>>)]
    /\ UNCHANGED <<moduleVars, sceneVars, parserVars, trackerVars, cacheVars>>

\* aligned_tuple = self.align_chars(text, char_offsets, audio_file_path)
AlignChars(p) ==
    /\ At(p, "align", "align_chars")
    /\ LET job    == procs[p].job
           parsed == feed(TagParser(Names({bookmark_mapping}), DEFAULT), TwoMarks)
       IN  /\ \E r \in align_chars(job.service, text(parsed),
                                   [i \in 1..Len(parsed.tags) |-> parsed.tags[i].offset],
                                   NarrationAudio) :
                 procs' = [procs EXCEPT ![p] =
                            IF r.status = "ok"
                            THEN [@ EXCEPT !.pc = "open", !.local = r.value]
                            ELSE Done(@, r.status, "", <<>>)]
           /\ invoked' = Record(invoked, <<"align_chars">>, "caller", RaceRequest(job))
    /\ UNCHANGED <<moduleVars, sceneVars, parserVars, trackerVars, fs, ret, returned>>

\* with json_file_path.open("w") as json_file:
AlignOpen(p) ==
    /\ At(p, "align", "open")
    /\ fs' = write(fs, JsonPath(procs[p].job), EmptyFile)
    /\ Goto(p, "dump")
    /\ UNCHANGED <<moduleVars, sceneVars, parserVars, trackerVars, ret, invoked, returned>>

\* json.dump(aligned_tuple, json_file); return aligned_tuple
AlignDump(p) ==
    /\ At(p, "align", "dump")
    /\ fs' = write(fs, JsonPath(procs[p].job), json_dump(procs[p].local))
    /\ procs' = [procs EXCEPT ![p] = Done(@, "ok", "", @.local)]
    /\ UNCHANGED <<moduleVars, sceneVars, parserVars, trackerVars, ret, invoked, returned>>

\* if audio_file_path.exists(): return audio_file_path
SpeechExists(p) ==
    /\ At(p, "speech", "start")
    /\ LET path == WavPath(procs[p].job)
       IN  procs' = [procs EXCEPT ![p] =
                IF exists(fs, path)
                THEN Done(@, "ok", StateOf(fs, path), path)
                ELSE [@ EXCEPT !.pc = "generate",
                               !.local = with_suffix(path, procs[p].job.service.ext)]]
    /\ UNCHANGED <<moduleVars, sceneVars, parserVars, trackerVars, cacheVars>>

\* generate_speech opens the file it was given (tts.save, sf.write)
GenerateOpen(p) ==
    /\ At(p, "speech", "generate")
    /\ fs' = write(fs, procs[p].local,
                   Audio(procs[p].job.service.ext, SpeechTexts[1], FALSE))
    /\ invoked' = Record(invoked, <<"generate_speech">>, "caller",
                         RaceRequest(procs[p].job))
    /\ Goto(p, "save")
    /\ UNCHANGED <<moduleVars, sceneVars, parserVars, trackerVars, ret, returned>>

\* generate_speech writes the audio and returns the path; the audio goes to
\* the file that was opened, which another process may have unlinked
GenerateSave(p) ==
    /\ At(p, "speech", "save")
    /\ fs' = IF exists(fs, procs[p].local)
             THEN write(fs, procs[p].local,
                        Audio(procs[p].job.service.ext, SpeechTexts[1], TRUE))
             ELSE fs
    /\ Goto(p, "convert")
    /\ UNCHANGED <<moduleVars, sceneVars, parserVars, trackerVars, ret, invoked, returned>>

\* convert_to_wav: if not path.is_file(): raise; if path.suffix == ".wav": return
ConvertCheck(p) ==
    /\ At(p, "speech", "convert")
    /\ procs' = [procs EXCEPT ![p] =
            IF ~exists(fs, @.local)
            THEN Done(@, "NarrationAudioError", "missing", NoPath)
            ELSE IF @.local.suffix = ".wav"
            THEN [@ EXCEPT !.pc = "callback"]
            ELSE [@ EXCEPT !.pc = "load"]]
    /\ invoked' = Record(invoked, <<"convert_to_wav">>, "caller",
                         RaceRequest(procs[p].job))
    /\ UNCHANGED <<moduleVars, sceneVars, parserVars, trackerVars, fs, ret, returned>>

\* convert_to_wav: audio, sr = librosa.load(path, ...)
ConvertLoad(p) ==
    /\ At(p, "speech", "load")
    /\ procs' = [procs EXCEPT ![p] =
            IF StateOf(fs, @.local) = "complete"
            THEN [@ EXCEPT !.pc = "write_open"]
            ELSE Done(@, "LoadError", StateOf(fs, @.local), NoPath)]
    /\ UNCHANGED <<moduleVars, sceneVars, parserVars, trackerVars, cacheVars>>

\* convert_to_wav: sf.write(wav_file, ...) opens the .wav file
ConvertOpen(p) ==
    /\ At(p, "speech", "write_open")
    /\ fs' = write(fs, with_suffix(procs[p].local, ".wav"),
                   Audio(".wav", SpeechTexts[1], FALSE))
    /\ Goto(p, "write")
    /\ UNCHANGED <<moduleVars, sceneVars, parserVars, trackerVars, ret, invoked, returned>>

\* convert_to_wav: sf.write(wav_file, ...) writes the .wav file
ConvertWrite(p) ==
    /\ At(p, "speech", "write")
    /\ fs' = write(fs, with_suffix(procs[p].local, ".wav"),
                   Audio(".wav", SpeechTexts[1], TRUE))
    /\ Goto(p, "unlink")
    /\ UNCHANGED <<moduleVars, sceneVars, parserVars, trackerVars, ret, invoked, returned>>

\* convert_to_wav: path.unlink(); return wav_file
ConvertUnlink(p) ==
    /\ At(p, "speech", "unlink")
    /\ IF exists(fs, procs[p].local)
       THEN /\ fs' = unlink(fs, procs[p].local)
            /\ procs' = [procs EXCEPT ![p].pc = "callback",
                                      ![p].local = with_suffix(@, ".wav")]
       ELSE /\ fs' = fs
            /\ procs' = [procs EXCEPT ![p] =
                            Done(@, "FileNotFoundError", "missing", NoPath)]
    /\ UNCHANGED <<moduleVars, sceneVars, parserVars, trackerVars, ret, invoked, returned>>

\* audio_file_path = self.audio_callback(audio_file_path); return audio_file_path
AudioCallback(p) ==
    /\ At(p, "speech", "callback")
    /\ procs' = [procs EXCEPT ![p] =
                    Done(@, "ok", StateOf(fs, @.local), audio_callback(@.local))]
    /\ invoked' = Record(invoked, <<"audio_callback">>, "caller",
                         RaceRequest(procs[p].job))
    /\ UNCHANGED <<moduleVars, sceneVars, parserVars, trackerVars, fs, ret, returned>>

NextRace ==
    \E p \in Procs :
        \/ AlignExists(p)
        \/ AlignLoad(p)
        \/ AlignChars(p)
        \/ AlignOpen(p)
        \/ AlignDump(p)
        \/ SpeechExists(p)
        \/ GenerateOpen(p)
        \/ GenerateSave(p)
        \/ ConvertCheck(p)
        \/ ConvertLoad(p)
        \/ ConvertOpen(p)
        \/ ConvertWrite(p)
        \/ ConvertUnlink(p)
        \/ AudioCallback(p)

SpecRace == InitRace /\ [][NextRace]_vars

(***************************************************************************)
(* Bookmark extraction as a state machine: _align_bookmarks is called, up  *)
(* to MaxCalls times, on one service with one text of at most MaxMarks     *)
(* tokens.  Here fed is the raw text of the calls and parser the TagParser *)
(* the last call created and fed with it.                                  *)
(***************************************************************************)
\* bookmark tags well and ill formed, text, and a tag that is no bookmark
BookmarkTokens ==
    Range(GoodTokens) \cup
    { TagTok("start", bookmark, <<Attr(mark, <<"A">>)>>, "single"),   \* <bookmark mark='A'>
      TagTok("end", bookmark, <<>>, "double"),                        \* </bookmark>
      TagTok("startend", bookmark, <<>>, "single"),                   \* <bookmark/>
      TagTok("startend", bookmark,
             <<Attr(<<"m", "a", "r">>, <<"B">>)>>, "single"),          \* <bookmark mar='B'/>
      TagTok("startend", bookmark, <<BoolAttr(mark)>>, "single") }    \* <bookmark mark/>

BookmarkTexts == UNION { [1..k -> BookmarkTokens] : k \in 0..MaxMarks }

\* the services the texts are given to
ValidateServices == AlignmentServices \o <<InterpolationAligner>>

InitValidate ==
    /\ parser = TagParser(Names({bookmark_mapping}), DEFAULT)
    /\ fed \in BookmarkTexts
    /\ fs = AudioOnly
    /\ tracker = NoTracker
    /\ scene_time = 0
    /\ alignment_service \in Range(ValidateServices)
    /\ IdleCache
    /\ IdleRace
    /\ IdleScene
    /\ IdleModule

\* alignment_service._align_bookmarks(raw_text, audio_file_path)
AlignText ==
    /\ Calls("_align_bookmarks") < MaxCalls
    /\ LET req == Request(alignment_service, SourceText(fed), NarrationAudio)
       IN  \E o \in _align_bookmarks(alignment_service, fed, NarrationAudio, fs) :
              /\ fs' = o.fs
              /\ invoked' = Record(invoked, <<"_align_bookmarks">> \o o.calls,
                                   "caller", req)
              /\ returned' = IF o.status = "ok"
                             THEN Return("_align_bookmarks", req, o.value)
                             ELSE returned
              /\ ret' = RetPassing("_align_bookmarks", req, o)
    /\ parser' = feed(TagParser(Names({bookmark_mapping}), DEFAULT), fed)
    /\ UNCHANGED <<moduleVars, sceneVars, fed, raceVars, trackerVars>>

NextValidate == AlignText

SpecValidate == InitValidate /\ [][NextValidate]_vars

(***************************************************************************)
(* NarrationScene (narration_scene.py).  A registry of services is the     *)
(* dict the scene holds: <<identifier, service>> pairs in insertion order. *)
(* `trackers` holds every tracker that was assigned to the attribute       *)
(* `tracker` of the scene, the attribute being the place of one of them    *)
(* (0: never assigned).  NarrationScene.__init__ assigns neither `tracker` *)
(* nor `alignment_service`, the attribute the tracker reads its aligner    *)
(* from (tracker.py:73).                                                   *)
(***************************************************************************)
\* the value None of an identifier
None == "<None>"

NoService == [name |-> "", kwargs |-> <<>>, ext |-> ""]

\* the duration of one frame, 1 / m.config["frame_rate"], in ticks
one_frame == 1

\* dict[key]
registered(registry, id) == \E i \in 1..Len(registry) : registry[i][1] = id

getitem(registry, id) == registry[CHOOSE i \in 1..Len(registry) : registry[i][1] = id][2]

\* x or y, for an identifier x
falsy(id) == id = None \/ id = ""

\* NarrationScene._get_speech_service_from_id
_get_speech_service_from_id(speech_services, speech_service_id) ==
    IF speech_services = <<>>
    THEN [status |-> "SpeechServiceError", value |-> NoService]
    ELSE LET id == IF falsy(speech_service_id)
                   THEN speech_services[1][1]
                   ELSE speech_service_id
         IN  IF registered(speech_services, id)
             THEN [status |-> "ok", value |-> getitem(speech_services, id)]
             ELSE [status |-> "SpeechServiceError", value |-> NoService]

\* a lookup whose default is the service registered last
_get_alignment_service_from_id_Last(alignment_services, alignment_service_id) ==
    IF falsy(alignment_service_id) /\ alignment_services = <<>>
    THEN [status |-> "StopIteration", value |-> NoService]
    ELSE LET id == IF falsy(alignment_service_id)
                   THEN alignment_services[Len(alignment_services)][1]
                   ELSE alignment_service_id
         IN  IF registered(alignment_services, id)
             THEN [status |-> "ok", value |-> getitem(alignment_services, id)]
             ELSE [status |-> "AlignmentError", value |-> NoService]

\* NarrationScene._get_alignment_service_from_id
_get_alignment_service_from_id(alignment_services, alignment_service_id) ==
    IF falsy(alignment_service_id) /\ alignment_services = <<>>
    THEN [status |-> "StopIteration", value |-> NoService]
    ELSE LET id == IF falsy(alignment_service_id)
                   THEN alignment_services[1][1]
                   ELSE alignment_service_id
         IN  IF registered(alignment_services, id)
             THEN [status |-> "ok", value |-> getitem(alignment_services, id)]
             ELSE [status |-> "AlignmentError", value |-> NoService]

\* where the script is in a wait of the scene: not in one, or inside the
\* self.wait of safe_wait, entered at time since and lasting until time until
\* on behalf of op (wait_until_bookmark, with the target the line after the
\* wait will make current, or wait_for_narration_to_finish)
NoWait == [active |-> FALSE, op |-> "", target_mark |-> <<>>, since |-> 0, until |-> 0]

Waiting(op, target_mark, since, until) ==
    [active |-> TRUE, op |-> op, target_mark |-> target_mark, since |-> since,
     until |-> until]

\* an attribute of the scene that no statement has assigned
Unassigned == [set |-> FALSE]

\* an attribute of the scene with the value assigned to it
Assigned(value) == [set |-> TRUE, value |-> value]

\* NarrationScene.__init__
NarrationScene ==
    [alive              |-> TRUE,
     speech_services    |-> <<>>,
     alignment_services |-> << <<"default", InterpolationAligner>> >>,
     alignment_service  |-> Unassigned,
     tracker            |-> 0,
     trackers           |-> <<>>,
     sounds             |-> <<>>,
     subcaptions        |-> <<>>,
     wait               |-> NoWait]

\* the fields NarrationConfig declares (_config/config.py:51-52); the model
\* forbids any other (extra="forbid", config_base.py:154-156)
NarrationConfigFields == {"cache", "tags"}

\* self.config.<name>: a name that is no field of the configuration raises
\* AttributeError
config_option(name) ==
    IF name \in NarrationConfigFields
    THEN [status |-> "ok", value |-> TRUE]
    ELSE [status |-> "AttributeError", value |-> FALSE]

\* the parameters of NarrationTracker.__init__ besides self (tracker.py:26-32)
TrackerParameters == {"scene", "start_time", "raw_text", "audio_file_path"}

\* the keyword arguments add_narration gives to NarrationTracker, after the
\* positional scene (narration_scene.py:160-166 and 182-188)
TrackerKeywords == {"start_time", "alignment_service", "raw_text", "audio_file_path"}

\* the call NarrationTracker(scene, **keywords): a keyword that is no
\* parameter raises TypeError before __init__ runs
tracker_call(keywords) ==
    IF keywords \subseteq TrackerParameters THEN "ok" ELSE "TypeError"

IsSpace(c) == c \in {" ", "\n", "\t"}

RECURSIVE lstrip(_)
lstrip(chars) ==
    IF chars # <<>> /\ IsSpace(Head(chars)) THEN lstrip(Tail(chars)) ELSE chars

RECURSIVE join_split(_)
\* " ".join(chars.split())
join_split(chars) ==
    LET word == lstrip(chars)
    IN  IF word = <<>> THEN <<>>
        ELSE IF Len(word) > 1 /\ IsSpace(word[2])
        THEN LET rest == join_split(Tail(word))
             IN  IF rest = <<>> THEN <<Head(word)>>
                 ELSE <<Head(word), " ">> \o rest
        ELSE <<Head(word)>> \o join_split(Tail(word))

\* Path(self.config.cache.dir) / "unrendered.wav"
Unrendered ==
    Path(<<cache_dir>>, <<"u", "n", "r", "e", "n", "d", "e", "r", "e", "d">>, ".wav")

\* the scene once self.tracker = NarrationTracker(...) has run
with_tracker(sc, t) ==
    [sc EXCEPT !.trackers = Append(@, t), !.tracker = Len(sc.trackers) + 1]

SceneOutcome(status, sc, files) == [status |-> status, scene |-> sc, fs |-> files]

\* NarrationScene.add_subcaption_text for a text of at most
\* max_subcaption_len characters
add_subcaption_text(sc, txt, duration) ==
    [sc EXCEPT !.subcaptions =
        Append(@, [text |-> txt, duration |-> duration, offset |-> 0])]

(***************************************************************************)
(* utils.regroup_splits.                                                   *)
(***************************************************************************)
\* f"{group} {split}" if group else split
joined(group, split) == IF group # <<>> THEN group \o <<" ">> \o split ELSE split

\* one turn of the loop of regroup_splits, from the values of regrouped and
\* group before it to their values after it
regroup_turn(st, split, max_len) ==
    IF split = <<>>
    THEN st
    ELSE IF Len(split) > max_len
    THEN [regrouped |-> (IF st.group # <<>> THEN Append(st.regrouped, st.group)
                         ELSE st.regrouped) \o <<split>>,
          group |-> <<>>]
    ELSE IF Len(st.group) + Len(split) <= max_len - 1
    THEN [st EXCEPT !.group = joined(st.group, split)]
    ELSE [regrouped |-> Append(st.regrouped, st.group), group |-> split]

RECURSIVE regroup_loop(_, _, _)
\* the loop of regroup_splits over the splits that are left
regroup_loop(st, splits, max_len) ==
    IF splits = <<>> THEN st
    ELSE regroup_loop(regroup_turn(st, Head(splits), max_len), Tail(splits), max_len)

\* the lines after the loop: the last group is appended unless it is empty
regrouped_with(st) ==
    IF st.group # <<>> THEN Append(st.regrouped, st.group) ELSE st.regrouped

\* utils.regroup_splits(splits, max_len)
regroup_splits(splits, max_len) ==
    regrouped_with(regroup_loop([regrouped |-> <<>>, group |-> <<>>], splits, max_len))

(***************************************************************************)
(* Subcaptions in chunks (narration_scene.py:207-280): a text longer than  *)
(* max_subcaption_len is split after punctuation, regrouped, wrapped and   *)
(* aligned, and every chunk becomes a subcaption.                          *)
(***************************************************************************)
RECURSIVE split_rest(_, _, _)
\* re.split(r"(?<=[chars])\s+", text) over what is left of the text, cur
\* being the split read so far
split_rest(cur, rest, chars) ==
    IF rest = <<>> THEN <<cur>>
    ELSE IF IsSpace(Head(rest)) /\ cur # <<>> /\ cur[Len(cur)] \in chars
    THEN <<cur>> \o split_rest(<<>>, lstrip(rest), chars)
    ELSE split_rest(Append(cur, Head(rest)), Tail(rest), chars)

\* utils.split_after_characters(text, chars)
split_after_characters(txt, chars) ==
    IF chars # {} THEN split_rest(<<>>, txt, chars) ELSE <<txt>>

\* TextWrapper.tabsize
tabsize == 8

RECURSIVE expandtabs(_, _, _)
\* str.expandtabs(size) over what is left of the text, column being the
\* column the next character falls in: a tab becomes the spaces that lead
\* to the next multiple of size, a line break starts the columns again
expandtabs(txt, column, size) ==
    IF txt = <<>> THEN <<>>
    ELSE IF Head(txt) = "\t"
    THEN [i \in 1..(size - (column % size)) |-> " "]
         \o expandtabs(Tail(txt), 0, size)
    ELSE <<Head(txt)>>
         \o expandtabs(Tail(txt), IF Head(txt) = "\n" THEN 0 ELSE column + 1, size)

\* TextWrapper._munge_whitespace: the tabs are expanded, then every white
\* space character becomes a space
_munge_whitespace(txt) ==
    LET expanded == expandtabs(txt, 0, tabsize)
    IN  [i \in 1..Len(expanded) |-> IF IsSpace(expanded[i]) THEN " " ELSE expanded[i]]

\* the length of the run of characters of one kind, spaces or others, that
\* the text starts with
Run(txt) ==
    IF \E i \in 1..Len(txt) : (txt[i] = " ") # (txt[1] = " ")
    THEN (CHOOSE i \in 1..Len(txt) :
             /\ (txt[i] = " ") # (txt[1] = " ")
             /\ \A j \in 1..(i - 1) : (txt[j] = " ") = (txt[1] = " ")) - 1
    ELSE Len(txt)

RECURSIVE _split_chunks(_)
\* TextWrapper._split_chunks for a text without hyphens: the runs of spaces
\* and the words between them
_split_chunks(txt) ==
    IF txt = <<>> THEN <<>>
    ELSE <<SubSeq(txt, 1, Run(txt))>> \o _split_chunks(SubSeq(txt, Run(txt) + 1, Len(txt)))

\* chunk.strip() == ''
Blank(chunk) == \A i \in 1..Len(chunk) : chunk[i] = " "

RECURSIVE Flat(_)
\* ''.join(chunks), and itertools.chain.from_iterable for lists
Flat(seqs) == IF seqs = <<>> THEN <<>> ELSE Head(seqs) \o Flat(Tail(seqs))

RECURSIVE take_chunks(_, _, _)
\* the inner loop of _wrap_chunks: chunks are moved to the line while they fit
take_chunks(cur_line, chunks, width) ==
    IF chunks # <<>> /\ Len(Flat(cur_line)) + Len(Head(chunks)) <= width
    THEN take_chunks(Append(cur_line, Head(chunks)), Tail(chunks), width)
    ELSE [cur_line |-> cur_line, chunks |-> chunks]

\* TextWrapper._handle_long_word with break_long_words: the chunk that is
\* wider than a line gives the line the characters there is room for
_handle_long_word(st, width) ==
    IF st.chunks # <<>> /\ Len(Head(st.chunks)) > width
    THEN LET space_left == IF width < 1 THEN 1 ELSE width - Len(Flat(st.cur_line))
             chunk      == Head(st.chunks)
         IN  [cur_line |-> Append(st.cur_line, SubSeq(chunk, 1, space_left)),
              chunks   |-> <<SubSeq(chunk, space_left + 1, Len(chunk))>>
                               \o Tail(st.chunks)]
    ELSE st

\* drop_whitespace at the end of a line
drop_last_blank(cur_line) ==
    IF cur_line # <<>> /\ Blank(cur_line[Len(cur_line)])
    THEN SubSeq(cur_line, 1, Len(cur_line) - 1)
    ELSE cur_line

RECURSIVE _wrap_chunks(_, _, _)
\* TextWrapper._wrap_chunks for a width > 0: the lines made of the chunks
_wrap_chunks(lines, chunks, width) ==
    IF chunks = <<>> THEN lines
    ELSE LET left == IF Blank(Head(chunks)) /\ lines # <<>> THEN Tail(chunks)
                     ELSE chunks
             st   == _handle_long_word(take_chunks(<<>>, left, width), width)
             cur_line == drop_last_blank(st.cur_line)
         IN  _wrap_chunks(IF cur_line # <<>> THEN Append(lines, Flat(cur_line))
                          ELSE lines,
                          st.chunks, width)

\* textwrap.wrap(text, width=width) for a width > 0
wrap(txt, width) == _wrap_chunks(<<>>, _split_chunks(_munge_whitespace(txt)), width)

RECURSIVE accumulate(_, _)
\* tuple(itertools.accumulate(numbers)), total being the sum so far
accumulate(numbers, total) ==
    IF numbers = <<>> THEN <<>>
    ELSE <<total + Head(numbers)>> \o accumulate(Tail(numbers), total + Head(numbers))

\* (0,) + tuple(itertools.accumulate(len(f) + 1 for f in flattened[:-1]))
chunk_offsets(flattened) ==
    <<0>> \o accumulate([i \in 1..(Len(flattened) - 1) |-> Len(flattened[i]) + 1], 0)

\* prefer_splitting_after_chars of add_subcaption_text, its default
prefer_splitting_after_chars == {".", "!", "?", ",", ";", ":"}

\* what add_subcaption_text wraps: the splits of the text regrouped, or the
\* text alone when there is no character to split after
regrouped_splits(txt, max_subcaption_len, chars) ==
    IF chars # {}
    THEN regroup_splits(split_after_characters(txt, chars), max_subcaption_len)
    ELSE <<txt>>

\* the chunks of add_subcaption_text for a text longer than max_subcaption_len
flattened_chunks(txt, max_subcaption_len, chars) ==
    LET regrouped == regrouped_splits(txt, max_subcaption_len, chars)
    IN  Flat([i \in 1..Len(regrouped) |-> wrap(regrouped[i], max_subcaption_len)])

\* what add_subcaption_text asked of _align_chars_and_cache and what it got
ChunkRequest(char_offsets, o) ==
    [char_offsets |-> char_offsets, timestamps |-> o.value, cache |-> o.cache]

NoChunkRequest == [char_offsets |-> <<>>, timestamps |-> <<>>, cache |-> <<>>]

ChunkOutcome(status, sc, files, aligned) ==
    [status |-> status, scene |-> sc, fs |-> files, aligned |-> aligned]

\* the loop of add_subcaption over zip(timestamps, durations, flattened,
\* strict=True): the subcaptions of the first n chunks
with_chunks(sc, timestamps, duration, subcaption_buff, flattened, n) ==
    [sc EXCEPT !.subcaptions = @ \o
        [i \in 1..n |->
            [text     |-> flattened[i],
             duration |-> (IF i < Len(timestamps) THEN timestamps[i + 1]
                           ELSE duration) - timestamps[i] - subcaption_buff,
             offset   |-> timestamps[i]]]]

\* NarrationScene.add_subcaption_text: the possible outcomes, each with the
\* scene and the cache as the call leaves them
add_subcaption_text_chunks(sc, txt, duration, subcaption_aligner_id, max_subcaption_len, subcaption_buff, chars, files) ==
    IF Len(txt) <= max_subcaption_len
    THEN { ChunkOutcome("ok", add_subcaption_text(sc, txt, duration), files, NoChunkRequest) }
    ELSE IF max_subcaption_len <= 0
            /\ regrouped_splits(txt, max_subcaption_len, chars) # <<>>
    THEN { ChunkOutcome("ValueError", sc, files, NoChunkRequest) }
    ELSE LET aligner == _get_alignment_service_from_id(sc.alignment_services,
                                                       subcaption_aligner_id)
             flattened == flattened_chunks(txt, max_subcaption_len, chars)
             char_offsets == chunk_offsets(flattened)
         IN  IF aligner.status # "ok"
             THEN { ChunkOutcome(aligner.status, sc, files, NoChunkRequest) }
             ELSE IF sc.tracker = 0
             THEN { ChunkOutcome("AttributeError", sc, files, NoChunkRequest) }
             ELSE { IF o.status # "ok"
                    THEN ChunkOutcome(o.status, sc, o.fs, ChunkRequest(char_offsets, o))
                    ELSE IF Len(o.value) = 0
                    THEN ChunkOutcome("ValueError", sc, o.fs, ChunkRequest(char_offsets, o))
                    ELSE IF Len(o.value) # Len(flattened)
                    THEN ChunkOutcome("ValueError",
                             with_chunks(sc, o.value, duration, subcaption_buff, flattened,
                                         IF Len(o.value) < Len(flattened)
                                         THEN Len(o.value) ELSE Len(flattened)),
                             o.fs, ChunkRequest(char_offsets, o))
                    ELSE ChunkOutcome("ok",
                             with_chunks(sc, o.value, duration, subcaption_buff, flattened,
                                         Len(flattened)),
                             o.fs, ChunkRequest(char_offsets, o)) :
                    o \in _align_chars_and_cache(
                             aligner.value, txt, char_offsets,
                             sc.trackers[sc.tracker].audio_file_path,
                             AlignmentData(txt, aligner.value), files) }

\* the subcaption_buff add_subcaption_text has when the call gives none:
\* 0.3 seconds
DefaultSubcaptionBuff == 300 * TicksPerMs

\* the text add_narration gives to the speech service: the narration without
\* its tags, white space stripped and collapsed
spoken_text(txt) ==
    join_split(text(feed(TagParser(DEFAULT, Names({bookmark_mapping})), txt)))

\* max_subcaption_len of add_subcaption_text when the call gives none
DefaultMaxSubcaptionLen == 70

\* **subcaption_kwargs of an add_narration that gives none: add_subcaption_text
\* then runs with the defaults of its parameters
NoSubcaptionKwargs ==
    [subcaption_aligner_id        |-> None,
     max_subcaption_len           |-> DefaultMaxSubcaptionLen,
     subcaption_buff              |-> DefaultSubcaptionBuff,
     prefer_splitting_after_chars |-> prefer_splitting_after_chars]

\* NarrationScene.add_narration: the possible outcomes, each with the scene
\* and the cache as the call leaves them.  The first statement reads the
\* option render_narrations of the configuration, which is no field of it:
\* the call ends there with AttributeError.  The statements after it are
\* given as they are written: both calls of NarrationTracker pass the
\* keyword alignment_service, which is no parameter of the constructor, so
\* that they raise TypeError, the second after _get_speech has written the
\* audio.  subcaption is the alternative subcaption text (empty: the
\* narration without its tags) and subcaption_kwargs the keyword arguments
\* handed on to add_subcaption_text.
add_narration(sc, time, files, speech_service_id, alignment_service_id, txt, create_subcaption, subcaption, subcaption_kwargs) ==
    IF config_option("render_narrations").status # "ok"
    THEN { SceneOutcome(config_option("render_narrations").status, sc, files) }
    ELSE IF ~config_option("render_narrations").value
    THEN IF tracker_call(TrackerKeywords) # "ok"
         THEN { SceneOutcome(tracker_call(TrackerKeywords), sc, files) }
         ELSE IF ~exists(files, Unrendered)
         THEN { SceneOutcome("FileNotFoundError", sc, files) }
         ELSE { SceneOutcome("ok",
                    with_tracker(sc, NarrationTracker(time, txt, Unrendered, duration)),
                    files) : duration \in Durations }
    ELSE LET speech  == _get_speech_service_from_id(sc.speech_services,
                                                    speech_service_id)
             aligner == _get_alignment_service_from_id(sc.alignment_services,
                                                       alignment_service_id)
             clean_text == spoken_text(txt)
         IN  IF speech.status # "ok"
             THEN { SceneOutcome(speech.status, sc, files) }
             ELSE IF aligner.status # "ok"
             THEN { SceneOutcome(aligner.status, sc, files) }
             ELSE UNION {
                 IF o.status # "ok"
                 THEN { SceneOutcome(o.status, sc, o.fs) }
                 ELSE IF tracker_call(TrackerKeywords) # "ok"
                 THEN { SceneOutcome(tracker_call(TrackerKeywords), sc, o.fs) }
                 ELSE UNION {
                     LET t      == NarrationTracker(time, txt, o.value, duration)
                         voiced == [with_tracker(sc, t) EXCEPT
                                       !.sounds = Append(@, o.value)]
                         untagged == text(feed(TagParser(DEFAULT, DEFAULT), txt))
                     IN  IF ~create_subcaption
                         THEN { SceneOutcome("ok", voiced, o.fs) }
                         ELSE { SceneOutcome(c.status, c.scene, c.fs) :
                                c \in add_subcaption_text_chunks(
                                         voiced,
                                         IF subcaption # <<>> THEN subcaption
                                         ELSE untagged,
                                         t.duration,
                                         subcaption_kwargs.subcaption_aligner_id,
                                         subcaption_kwargs.max_subcaption_len,
                                         subcaption_kwargs.subcaption_buff,
                                         subcaption_kwargs.prefer_splitting_after_chars,
                                         o.fs) } :
                     duration \in Durations } :
                 o \in _get_speech(speech.value, clean_text, files) }

\* NarrationScene.safe_wait: the time the scene waits
safe_wait(duration) == Max(one_frame, duration)

(***************************************************************************)
(* The scene as a state machine: services are registered, narrations are   *)
(* added directly or through with-blocks, and the script waits for         *)
(* bookmarks and for the end of the narration.  A script may also assign   *)
(* the attributes tracker and alignment_service of the scene itself, with  *)
(* a tracker built by the constructor of tracker.py: this is how the waits *)
(* of the scene get a tracker and an aligner to work with.                 *)
(***************************************************************************)
SceneIds == { None, "", "a", "b", "zz" }

SpeechRegistries ==
    { <<>>,
      << <<"a", kokoro_service>>, <<"b", gtts_service>> >>,
      << <<"b", gtts_service>>, <<"a", kokoro_service>> >> }

AlignmentRegistries ==
    { <<>>,
      << <<"a", ManualAligner>>, <<"b", InterpolationAligner>> >>,
      << <<"b", InterpolationAligner>>, <<"a", ManualAligner>> >> }

NoArgs ==
    [speech_service_id |-> None, alignment_service_id |-> None, text |-> <<>>,
     target_mark |-> <<>>, offset |-> 0, registry |-> <<>>]

\* what the last operation of the script was, how it ended, the service it
\* returned, the tracker it has read (0: none) and the time it has waited
SceneRet(op, args, status, value, on, waited) ==
    [op |-> op, args |-> args, status |-> status, value |-> value, on |-> on,
     waited |-> waited]

InitScene ==
    /\ IdleParser
    /\ fs = EmptyMap
    /\ IdleTracker
    /\ invoked = EmptyMap
    /\ returned = EmptyMap
    /\ IdleRace
    /\ IdleModule
    /\ scene = NarrationScene
    /\ ret = SceneRet("__init__", NoArgs, "ok", NoService, 0, 0)

\* the same scene with the audio file of a narration in its cache directory
InitScripted ==
    /\ IdleParser
    /\ fs = AudioOnly
    /\ IdleTracker
    /\ invoked = EmptyMap
    /\ returned = EmptyMap
    /\ IdleRace
    /\ IdleModule
    /\ scene = NarrationScene
    /\ ret = SceneRet("__init__", NoArgs, "ok", NoService, 0, 0)

SceneFrame == <<moduleVars, parserVars, raceVars, tracker, alignment_service, invoked, returned>>

\* scene.set_speech_services(**registry)
SetSpeechServices(registry) ==
    /\ ~scene.wait.active
    /\ scene' = [scene EXCEPT !.speech_services = registry]
    /\ ret' = SceneRet("set_speech_services", [NoArgs EXCEPT !.registry = registry],
                       "ok", NoService, 0, 0)
    /\ UNCHANGED <<SceneFrame, fs, scene_time>>

\* scene.set_alignment_services(**registry)
SetAlignmentServices(registry) ==
    /\ ~scene.wait.active
    /\ scene' = [scene EXCEPT !.alignment_services = registry]
    /\ ret' = SceneRet("set_alignment_services", [NoArgs EXCEPT !.registry = registry],
                       "ok", NoService, 0, 0)
    /\ UNCHANGED <<SceneFrame, fs, scene_time>>

\* scene._get_speech_service_from_id(speech_service_id)
GetSpeechServiceFromId(speech_service_id) ==
    /\ ~scene.wait.active
    /\ LET r == _get_speech_service_from_id(scene.speech_services, speech_service_id)
       IN  ret' = SceneRet("_get_speech_service_from_id",
                           [NoArgs EXCEPT !.speech_service_id = speech_service_id],
                           r.status, r.value, 0, 0)
    /\ UNCHANGED <<SceneFrame, sceneVars, fs, scene_time>>

\* scene._get_alignment_service_from_id(alignment_service_id)
GetAlignmentServiceFromId(alignment_service_id) ==
    /\ ~scene.wait.active
    /\ LET r == _get_alignment_service_from_id(scene.alignment_services,
                                               alignment_service_id)
       IN  ret' = SceneRet("_get_alignment_service_from_id",
                           [NoArgs EXCEPT !.alignment_service_id = alignment_service_id],
                           r.status, r.value, 0, 0)
    /\ UNCHANGED <<SceneFrame, sceneVars, fs, scene_time>>

\* scene.add_narration(speech_service_id, alignment_service_id, text=txt,
\* create_subcaption=..., subcaption=..., **subcaption_kwargs); with
\* block = TRUE it is the entry of `with scene.narration(...)`, whose
\* generator calls add_narration before its yield: what add_narration
\* raises leaves the with statement before the body of the block runs, and
\* the wait_for_narration_to_finish after the yield (line 117) is not run
AddNarration(speech_service_id, alignment_service_id, txt, create_subcaption, subcaption, subcaption_kwargs, block) ==
    /\ ~scene.wait.active
    /\ Len(scene.trackers) < MaxNarrations
    /\ \E o \in add_narration(scene, scene_time, fs, speech_service_id,
                              alignment_service_id, txt, create_subcaption,
                              subcaption, subcaption_kwargs) :
          /\ scene' = o.scene
          /\ fs' = o.fs
          /\ ret' = SceneRet(IF block THEN "narration" ELSE "add_narration",
                             [NoArgs EXCEPT !.speech_service_id = speech_service_id,
                                            !.alignment_service_id = alignment_service_id,
                                            !.text = txt],
                             o.status, NoService, 0, 0)
    /\ UNCHANGED <<SceneFrame, scene_time>>

\* a script's scene.tracker = NarrationTracker(scene, scene.time, raw_text,
\* audio_file_path), the arguments the constructor of tracker.py takes;
\* get_duration reads the audio file, which has to exist
AssignTracker(raw_text, audio_file_path) ==
    /\ ~scene.wait.active
    /\ Len(scene.trackers) < MaxNarrations
    /\ IF ~exists(fs, audio_file_path)
       THEN /\ ret' = SceneRet("NarrationTracker", [NoArgs EXCEPT !.text = raw_text],
                               "FileNotFoundError", NoService, 0, 0)
            /\ UNCHANGED scene
       ELSE \E duration \in Durations :
               /\ scene' = with_tracker(scene,
                               NarrationTracker(scene_time, raw_text,
                                                audio_file_path, duration))
               /\ ret' = SceneRet("NarrationTracker", [NoArgs EXCEPT !.text = raw_text],
                                  "ok", NoService, 0, 0)
    /\ UNCHANGED <<SceneFrame, fs, scene_time>>

\* a script's scene.alignment_service = service, the attribute
\* duration_until_bookmark reads (tracker.py:73)
AssignAlignmentService(service) ==
    /\ ~scene.wait.active
    /\ scene' = [scene EXCEPT !.alignment_service = Assigned(service)]
    /\ ret' = SceneRet("alignment_service", NoArgs, "ok", service, 0, 0)
    /\ UNCHANGED <<SceneFrame, fs, scene_time>>

\* self.tracker.duration_until_bookmark(target_mark) for the tracker t of the
\* scene: with no timestamps stored the tracker reads
\* self.scene.alignment_service, which raises AttributeError as long as
\* nothing has assigned it
tracker_duration_until_bookmark(sc, t, target_mark, files) ==
    IF DOMAIN t.bookmark_timestamps = {} /\ ~sc.alignment_service.set
    THEN { [status |-> "AttributeError", msg |-> "", value |-> 0, fs |-> files,
            calls |-> <<>>, tracker |-> t] }
    ELSE duration_until_bookmark(t, sc.alignment_service.value, target_mark, files)

\* scene.wait_for_narration_to_finish() up to the call of self.wait: the
\* tracker is read for the time the narration has left and the wait begins
WaitForNarrationToFinish ==
    /\ ~scene.wait.active
    /\ IF scene.tracker = 0
       THEN /\ ret' = SceneRet("wait_for_narration_to_finish", NoArgs,
                               "AttributeError", NoService, 0, 0)
            /\ UNCHANGED scene
       ELSE LET duration == remaining_duration(scene.trackers[scene.tracker],
                                               scene_time)
            IN  /\ scene_time + safe_wait(duration) <= MaxTime
                /\ scene' = [scene EXCEPT !.wait =
                                Waiting("wait_for_narration_to_finish", <<>>,
                                        scene_time,
                                        scene_time + safe_wait(duration))]
                /\ ret' = SceneRet("wait_for_narration_to_finish", NoArgs,
                                   "waiting", NoService, scene.tracker, 0)
    /\ UNCHANGED <<SceneFrame, fs, scene_time>>

\* wait_until_bookmark that leaves the offset out of the wait
WaitUntilBookmark_IgnoresOffset(target_mark, offset) ==
    /\ ~scene.wait.active
    /\ LET args == [NoArgs EXCEPT !.target_mark = target_mark, !.offset = offset]
       IN  IF scene.tracker = 0
           THEN /\ ret' = SceneRet("wait_until_bookmark", args, "AttributeError",
                                   NoService, 0, 0)
                /\ UNCHANGED <<scene, scene_time, fs>>
           ELSE LET t == scene.trackers[scene.tracker]
                IN  \E o \in tracker_duration_until_bookmark(scene, t, target_mark, fs) :
                       /\ fs' = o.fs
                       /\ IF o.status # "ok"
                          THEN /\ scene' = [scene EXCEPT !.trackers[scene.tracker] = o.tracker]
                               /\ ret' = SceneRet("wait_until_bookmark", args, o.status,
                                                  NoService, scene.tracker, 0)
                               /\ UNCHANGED scene_time
                          ELSE /\ scene_time + safe_wait(o.value) <= MaxTime
                               /\ scene' = [scene EXCEPT
                                     !.trackers[scene.tracker] = o.tracker,
                                     !.wait = Waiting("wait_until_bookmark", target_mark, scene_time,
                                         scene_time + safe_wait(o.value))]
                               /\ ret' = SceneRet("wait_until_bookmark", args, "waiting",
                                                  NoService, scene.tracker, 0)
                               /\ UNCHANGED scene_time
    /\ UNCHANGED SceneFrame

\* wait_until_bookmark that makes the target current although the lookup raised
WaitUntilBookmark_MarksOnError(target_mark, offset) ==
    /\ ~scene.wait.active
    /\ LET args == [NoArgs EXCEPT !.target_mark = target_mark, !.offset = offset]
       IN  IF scene.tracker = 0
           THEN /\ ret' = SceneRet("wait_until_bookmark", args, "AttributeError",
                                   NoService, 0, 0)
                /\ UNCHANGED <<scene, scene_time, fs>>
           ELSE LET t == scene.trackers[scene.tracker]
                IN  \E o \in tracker_duration_until_bookmark(scene, t, target_mark, fs) :
                       /\ fs' = o.fs
                       /\ IF o.status # "ok"
                          THEN /\ scene' = [scene EXCEPT !.trackers[scene.tracker] =
                                              [o.tracker EXCEPT !.current_bookmark = target_mark]]
                               /\ ret' = SceneRet("wait_until_bookmark", args, o.status,
                                                  NoService, scene.tracker, 0)
                               /\ UNCHANGED scene_time
                          ELSE /\ scene_time + safe_wait(o.value + offset) <= MaxTime
                               /\ scene' = [scene EXCEPT
                                     !.trackers[scene.tracker] = o.tracker,
                                     !.wait = Waiting("wait_until_bookmark", target_mark, scene_time,
                                         scene_time + safe_wait(o.value + offset))]
                               /\ ret' = SceneRet("wait_until_bookmark", args, "waiting",
                                                  NoService, scene.tracker, 0)
                               /\ UNCHANGED scene_time
    /\ UNCHANGED SceneFrame

\* scene.wait_until_bookmark(target_mark, offset) up to the call of
\* self.wait: the tracker is read, the duration until the bookmark is looked
\* up (which aligns the bookmarks and stores their timestamps) and the wait
\* begins, or the lookup raises and the call is over
WaitUntilBookmark(target_mark, offset) ==
    /\ ~scene.wait.active
    /\ LET args == [NoArgs EXCEPT !.target_mark = target_mark, !.offset = offset]
       IN  IF scene.tracker = 0
           THEN /\ ret' = SceneRet("wait_until_bookmark", args, "AttributeError",
                                   NoService, 0, 0)
                /\ UNCHANGED <<scene, scene_time, fs>>
           ELSE LET t == scene.trackers[scene.tracker]
                IN  \E o \in tracker_duration_until_bookmark(scene, t, target_mark, fs) :
                       /\ fs' = o.fs
                       /\ IF o.status # "ok"
                          THEN /\ scene' = [scene EXCEPT !.trackers[scene.tracker] = o.tracker]
                               /\ ret' = SceneRet("wait_until_bookmark", args, o.status,
                                                  NoService, scene.tracker, 0)
                               /\ UNCHANGED scene_time
                          ELSE /\ scene_time + safe_wait(o.value + offset) <= MaxTime
                               /\ scene' = [scene EXCEPT
                                     !.trackers[scene.tracker] = o.tracker,
                                     !.wait = Waiting("wait_until_bookmark", target_mark, scene_time,
                                         scene_time + safe_wait(o.value + offset))]
                               /\ ret' = SceneRet("wait_until_bookmark", args, "waiting",
                                                  NoService, scene.tracker, 0)
                               /\ UNCHANGED scene_time
    /\ UNCHANGED SceneFrame

\* self.wait inside safe_wait renders one frame: the clock advances, and
\* the current bookmark is what it was
WaitFrame ==
    /\ scene.wait.active
    /\ scene_time < scene.wait.until
    /\ scene_time' = scene_time + one_frame
    /\ UNCHANGED <<SceneFrame, sceneVars, fs, ret>>

\* self.wait has returned: wait_until_bookmark goes on to
\* self.tracker.current_bookmark = target_mark; wait_for_narration_to_finish
\* returns
WaitReturns ==
    /\ scene.wait.active
    /\ scene_time = scene.wait.until
    /\ scene' = IF scene.wait.op = "wait_until_bookmark"
                THEN [scene EXCEPT
                         !.wait = NoWait,
                         !.trackers[scene.tracker].current_bookmark =
                             scene.wait.target_mark]
                ELSE [scene EXCEPT !.wait = NoWait]
    /\ ret' = [ret EXCEPT !.status = "ok", !.value = NoService,
                          !.on = scene.tracker,
                          !.waited = scene.wait.until - scene.wait.since]
    /\ UNCHANGED <<SceneFrame, fs, scene_time>>

\* self.wait raises (an updater or the renderer does) after the frames
\* rendered so far: wait_until_bookmark is left before the line that makes
\* the target current, wait_for_narration_to_finish before the narration
\* has ended
WaitRaises ==
    /\ scene.wait.active
    /\ scene' = [scene EXCEPT !.wait = NoWait]
    /\ ret' = [ret EXCEPT !.status = "Exception", !.value = NoService,
                          !.on = scene.tracker,
                          !.waited = scene_time - scene.wait.since]
    /\ UNCHANGED <<SceneFrame, fs, scene_time>>

\* the script plays an animation of one frame
Play ==
    /\ ~scene.wait.active
    /\ scene_time < MaxTime
    /\ scene_time' = scene_time + one_frame
    /\ ret' = SceneRet("play", NoArgs, "ok", NoService, 0, one_frame)
    /\ UNCHANGED <<SceneFrame, sceneVars, fs>>

\* the speech services of the scenes that add narrations
SceneSpeech == << <<"a", kokoro_service>>, <<"b", gtts_service>> >>

\* a script that registers speech services, adds narrations directly and
\* through with-blocks, assigns trackers of its own to the scene and waits
NextScene ==
    \/ SetSpeechServices(SceneSpeech)
    \/ \E alignment_service_id \in {None, "zz"}, block \in BOOLEAN :
          AddNarration(None, alignment_service_id, TwoMarks, FALSE,
                       <<>>, NoSubcaptionKwargs, block)
    \/ AssignTracker(TwoMarks, NarrationAudio)
    \/ AssignAlignmentService(InterpolationAligner)
    \/ WaitForNarrationToFinish
    \/ \E target_mark \in {<<"A">>, <<"Z">>}, offset \in 0..1 :
          WaitUntilBookmark(target_mark, offset)
    \/ WaitFrame
    \/ WaitReturns
    \/ WaitRaises
    \/ Play

SpecScene == InitScripted /\ [][NextScene]_vars

\* the narrations of the scenes that wait for bookmarks
WaitTexts == {TwoMarks, LateOrigin}

\* a scene to which the script assigns one tracker and the interpolation
\* aligner, and which waits for the bookmarks of the tracker, in any order
NextWaits ==
    \/ /\ scene.trackers = <<>>
       /\ \E txt \in WaitTexts : AssignTracker(txt, NarrationAudio)
    \/ AssignAlignmentService(InterpolationAligner)
    \/ \E target_mark \in {<<"A">>, <<"B">>, <<"Z">>}, offset \in 0..1 :
          WaitUntilBookmark(target_mark, offset)
    \/ WaitFrame
    \/ WaitReturns
    \/ WaitRaises
    \/ Play

SpecWaits == InitScripted /\ [][NextWaits]_vars

\* the same scene with every wait_until_bookmark called with offset 0
NextOnTime ==
    \/ /\ scene.trackers = <<>>
       /\ \E txt \in WaitTexts : AssignTracker(txt, NarrationAudio)
    \/ AssignAlignmentService(InterpolationAligner)
    \/ \E target_mark \in {<<"A">>, <<"B">>, <<"Z">>} :
          WaitUntilBookmark(target_mark, 0)
    \/ WaitFrame
    \/ WaitReturns
    \/ WaitRaises
    \/ Play

SpecOnTime == InitScripted /\ [][NextOnTime]_vars

(***************************************************************************)
(* The registries of a scene as a state machine: services are registered   *)
(* and looked up.                                                          *)
(***************************************************************************)
NextServices ==
    \/ \E registry \in SpeechRegistries : SetSpeechServices(registry)
    \/ \E registry \in AlignmentRegistries : SetAlignmentServices(registry)
    \/ \E id \in SceneIds : GetSpeechServiceFromId(id)
    \/ \E id \in SceneIds : GetAlignmentServiceFromId(id)

SpecServices == InitScene /\ [][NextServices]_vars

(***************************************************************************)
(* State machine of the aligners: one call of align_chars of a Manual or   *)
(* Interpolation aligner on a tag-free text, a tuple of offsets and an     *)
(* audio file of a given duration.                                         *)
(***************************************************************************)
PlainTexts == UNION { [1..k -> {"x", " "}] : k \in 0..MaxOffset }

OffsetTuples == UNION { [1..k -> 0..MaxOffset] : k \in 0..2 }

AlignCharsArgs ==
    [text : PlainTexts, char_offsets : OffsetTuples, duration : 0..MaxDuration]

InitAligners ==
    /\ IdleParser
    /\ fs = AudioOnly
    /\ IdleTracker
    /\ invoked = EmptyMap
    /\ returned = EmptyMap
    /\ IdleRace
    /\ IdleScene
    /\ IdleModule
    /\ \E args \in AlignCharsArgs :
          ret = [op |-> "", args |-> args, status |-> "", msg |-> "",
                 value |-> <<>>, reads |-> {}]

\* ManualAligner().align_chars(text, char_offsets, audio_file_path)
ManualAlignChars ==
    /\ ret.op = ""
    /\ \E r \in manual_align_chars(ret.args.text, ret.args.char_offsets, NarrationAudio) :
          ret' = [ret EXCEPT !.op = "ManualAligner.align_chars",
                             !.status = r.status, !.value = r.value,
                             !.reads = r.reads]
    /\ UNCHANGED <<moduleVars, sceneVars, parserVars, raceVars, trackerVars, fs, invoked, returned>>

\* InterpolationAligner().align_chars(text, char_offsets, audio_file_path),
\* get_duration(audio_file_path) being args.duration
InterpolationAlignChars ==
    /\ ret.op = ""
    /\ \E r \in interpolate(ret.args.duration, ret.args.text, ret.args.char_offsets) :
          ret' = [ret EXCEPT !.op = "InterpolationAligner.align_chars",
                             !.status = r.status, !.value = r.value,
                             !.reads = {NarrationAudio}]
    /\ UNCHANGED <<moduleVars, sceneVars, parserVars, raceVars, trackerVars, fs, invoked, returned>>

NextAligners == ManualAlignChars \/ InterpolationAlignChars

SpecAligners == InitAligners /\ [][NextAligners]_vars

(***************************************************************************)
(* State machine of get_hash_from_data: calls with one algorithm and one   *)
(* length on the values of HashInputs.                                     *)
(***************************************************************************)
HashLens == (0 - 2)..(DigestLen + 2)

InitHash ==
    /\ IdleParser
    /\ fs = AudioOnly
    /\ IdleTracker
    /\ invoked = EmptyMap
    /\ returned = EmptyMap
    /\ IdleRace
    /\ IdleScene
    /\ IdleModule
    /\ \E algo \in Range(HashAlgos), len \in HashLens :
          ret = [op |-> "get_hash_from_data",
                 args |-> [hash_algo |-> algo, hash_len |-> len],
                 calls |-> <<>>]

\* get_hash_from_data(HashInputs[i], hash_algo, hash_len)
GetHashFromData(i) ==
    /\ Len(ret.calls) < MaxHashCalls
    /\ LET r == get_hash_from_data_call(HashInputs[i], ret.args.hash_algo,
                                        ret.args.hash_len)
       IN  ret' = [ret EXCEPT !.calls =
                      Append(@, [data |-> i, status |-> r.status,
                                 value |-> r.value, hashed |-> r.hashed])]
    /\ UNCHANGED <<moduleVars, sceneVars, parserVars, raceVars, trackerVars, fs, invoked, returned>>

NextHash == \E i \in 1..Len(HashInputs) : GetHashFromData(i)

SpecHash == InitHash /\ [][NextHash]_vars

(***************************************************************************)
(* Properties of the tag parser.                                           *)
(***************************************************************************)
RECURSIVE TagFree(_)
\* the plain characters of a token sequence, every tag left out
TagFree(toks) ==
    IF toks = <<>> THEN <<>>
    ELSE (IF Head(toks).type = "data" THEN Head(toks).chars ELSE <<>>)
         \o TagFree(Tail(toks))

\* the canonical spelling of a token: a tag as TagInfo.__str__ writes it
CanonOf(tok) ==
    IF tok.type = "data" THEN tok.chars
    ELSE TagInfo_str(TagInfo(tok.kind, tok.name, dict(tok.attrs), 0))

\* the selector semantics as documented: None selects nothing, the empty
\* set everything, a non-empty set exactly its names
Selects(sel, name) == ~sel.isNone /\ (sel.names = {} \/ name \in sel.names)

Indices(toks) == [i \in 1..Len(toks) |-> i]

\* positions in fed of the tags the record selector selects
RecordedAt ==
    SelectSeq(Indices(fed),
              LAMBDA i : fed[i].type = "tag"
                         /\ Selects(parser.tags_to_record, fed[i].name))

\* positions in fed of everything that stays in the output text
KeptAt ==
    SelectSeq(Indices(fed),
              LAMBDA i : fed[i].type = "data"
                         \/ ~Selects(parser.tags_to_remove, fed[i].name))

RECURSIVE OutputOf(_)
\* the output text of a token sequence under the parser's remove selector,
\* kept tags in their canonical spelling
OutputOf(toks) ==
    IF toks = <<>> THEN <<>>
    ELSE (IF Head(toks).type = "data"
             \/ ~Selects(parser.tags_to_remove, Head(toks).name)
          THEN CanonOf(Head(toks)) ELSE <<>>)
         \o OutputOf(Tail(toks))

Before(i) == SubSeq(fed, 1, i - 1)

IsDefaultParser ==
    parser.tags_to_record = DEFAULT /\ parser.tags_to_remove = DEFAULT

\* C1: with the default selectors (record all, remove all) each recorded
\* tag's offset is the number of text characters emitted before the tag,
\* which is its index in the final tag-free text: 0 for a tag at the very
\* start, len(text) for a tag at the very end.
C1_OffsetIsTagFreeIndex ==
    IsDefaultParser =>
        /\ text(parser) = TagFree(fed)
        /\ Len(parser.tags) = Len(RecordedAt)
        /\ \A i \in 1..Len(RecordedAt) :
              LET at == RecordedAt[i]
                  o  == parser.tags[i].offset
              IN  /\ o = Len(TagFree(Before(at)))
                  /\ o <= Len(text(parser))
                  /\ SubSeq(text(parser), 1, o) = TagFree(Before(at))
                  /\ (at = 1 => o = 0)
                  /\ (at = Len(fed) => o = Len(text(parser)))

C1_Witness ==
    /\ IsDefaultParser
    /\ Len(fed) = 3
    /\ fed[1].type = "data" /\ fed[2].type = "tag" /\ fed[3].type = "tag"
    /\ Len(parser.tags) = 2
    /\ parser.tags[2].offset = Len(text(parser))
    /\ parser.tags[2].offset > 0

\* C2: a tag that is not removed is re-emitted into the output text and
\* advances the offset counter by the length of its re-serialized form, so
\* every recorded tag's offset is an index into the output text that still
\* holds the kept tags; a removed tag does not advance the counter.
C2_KeptTagAdvancesOffset ==
    /\ Len(parser.tags) = Len(RecordedAt)
    /\ \A i \in 1..Len(RecordedAt) :
          parser.tags[i].offset = Len(OutputOf(Before(RecordedAt[i])))

\* C3: under every selector configuration and after any sequence of feed
\* calls, the recorded offsets never decrease in parse order and each lies
\* in 0..len(parser.text).
C3_OffsetsMonotoneBounded ==
    /\ \A i \in 1..Len(parser.tags) :
          /\ 0 <= parser.tags[i].offset
          /\ parser.tags[i].offset <= Len(text(parser))
    /\ \A i, j \in 1..Len(parser.tags) :
          i < j => parser.tags[i].offset <= parser.tags[j].offset

C3_Witness ==
    /\ ~IsDefaultParser
    /\ Len(parser.tags) >= 2
    /\ parser.tags[1].offset < parser.tags[2].offset
    /\ parser.tags[2].offset < Len(text(parser))
    /\ \E i \in 1..Len(fed) : fed[i].type = "tag" /\ IsKept(parser, fed[i].name)

IsScenarioParse ==
    /\ fed = Scenario
    /\ parser.tags_to_record = Names({bookmark})
    /\ parser.tags_to_remove \in {DEFAULT, Names({bookmark})}

MarksAndOffsets ==
    [i \in 1..Len(parser.tags) |->
        <<parser.tags[i].kind, parser.tags[i].name, parser.tags[i].attrs,
          parser.tags[i].offset>>]

ScenarioTag(m, offset) ==
    <<"startend", bookmark, <<Attr(mark, <<m>>)>>, offset>>

\* C4 as stated: the scenario text yields the clean text "Test string."
\* and three records at offsets A:0, B:5, C:12.
C4_ScenarioAsStated ==
    IsScenarioParse =>
        /\ text(parser) = <<"T", "e", "s", "t", " ",
                            "s", "t", "r", "i", "n", "g", ".">>
        /\ MarksAndOffsets = << ScenarioTag("A", 0), ScenarioTag("B", 5),
                                ScenarioTag("C", 12) >>

\* C4 amended: parsing
\* "<bookmark mark='A'/>Test <bookmark mark='B'/>string. <bookmark mark='C'/>"
\* with bookmark tags recorded and removed yields the clean text
\* "Test string. " (13 characters, the space before the last bookmark is
\* kept) and exactly three records at offsets A:0, B:5, C:13.
C4_ScenarioOffsets ==
    IsScenarioParse =>
        /\ text(parser) = <<"T", "e", "s", "t", " ",
                            "s", "t", "r", "i", "n", "g", ".", " ">>
        /\ MarksAndOffsets = << ScenarioTag("A", 0), ScenarioTag("B", 5),
                                ScenarioTag("C", 13) >>

C4_Witness == IsScenarioParse /\ Len(parser.tags) = 3

\* C5: the two selectors act independently: the recorded tags are exactly
\* the tags the record selector selects, in order, whatever the remove
\* selector is, and the output text lacks exactly the tags the remove
\* selector selects, whatever the record selector is.
C5_SelectorsIndependent ==
    /\ Len(parser.tags) = Len(RecordedAt)
    /\ \A i \in 1..Len(RecordedAt) :
          /\ parser.tags[i].kind = fed[RecordedAt[i]].kind
          /\ parser.tags[i].name = fed[RecordedAt[i]].name
    /\ Len(parser.text_parts) = Len(KeptAt)
    /\ \A i \in 1..Len(KeptAt) : parser.text_parts[i] = CanonOf(fed[KeptAt[i]])

C5_Witness ==
    /\ Len(fed) = 2
    /\ fed[1].type = "tag" /\ fed[2].type = "tag"
    /\ fed[1].name = a_ /\ fed[2].name = b_
    /\ parser.tags_to_record = Names({a_})
    /\ parser.tags_to_remove = NoTags
    /\ Len(parser.tags) = 1
    /\ Len(parser.text_parts) = 2

IsNoOpParser ==
    parser.tags_to_record = NoTags /\ parser.tags_to_remove = NoTags

\* C6: with tags_to_record = None and tags_to_remove = None the parser
\* reproduces the input exactly, text == T, and records nothing.
C6_NoOpReproducesInput ==
    IsNoOpParser => text(parser) = SourceText(fed) /\ parser.tags = <<>>

Insert(s, at, t) == SubSeq(s, 1, at) \o t \o SubSeq(s, at + 1, Len(s))

RECURSIVE Reinsert(_, _)
\* put the tags back into s at their offsets, the last one first so that
\* the offsets of the others still index s
Reinsert(s, tagInfos) ==
    IF tagInfos = <<>> THEN s
    ELSE LET last == tagInfos[Len(tagInfos)]
         IN  Reinsert(Insert(s, last.offset, TagInfo_str(last)),
                      SubSeq(tagInfos, 1, Len(tagInfos) - 1))

RemovedTags ==
    SelectSeq(parser.tags, LAMBDA t : Selects(parser.tags_to_remove, t.name))

EveryRemovedTagIsRecorded ==
    \A i \in 1..Len(fed) :
        (fed[i].type = "tag" /\ Selects(parser.tags_to_remove, fed[i].name))
            => Selects(parser.tags_to_record, fed[i].name)

RECURSIVE CanonText(_)
\* T with every tag in its canonical spelling
CanonText(toks) ==
    IF toks = <<>> THEN <<>> ELSE CanonOf(Head(toks)) \o CanonText(Tail(toks))

\* C7: for every text T and selector configuration len(parser.text) <=
\* len(T), and putting the removed tags back into parser.text at their
\* recorded offsets gives a text with the tags of T at the positions they
\* have in T.
C7_ReinsertReconstructs ==
    /\ Len(text(parser)) <= Len(SourceText(fed))
    /\ EveryRemovedTagIsRecorded =>
          Reinsert(text(parser), RemovedTags) = CanonText(fed)

(***************************************************************************)
(* Properties of the tracker.                                              *)
(***************************************************************************)
Populated(t) == t.alive /\ DOMAIN t.bookmark_timestamps # {}

\* C8 as stated: over the life of one tracker _align_bookmarks is invoked at
\* most once.
C8_AlignedAtMostOnce == Calls("_align_bookmarks") <= 1

\* C8: _align_bookmarks is invoked only from duration_until_bookmark, never by
\* construction or remaining_duration; once bookmark_timestamps is populated it
\* never changes and _align_bookmarks is not invoked again, so at most one
\* invocation returns.  An invocation that raises leaves bookmark_timestamps
\* empty, and the next duration_until_bookmark invokes _align_bookmarks again.
C8_AlignedLazilyUntilPopulated ==
    [][ /\ Calls("_align_bookmarks")' # Calls("_align_bookmarks") =>
             /\ ret'.op = "duration_until_bookmark"
             /\ \A c \in DOMAIN invoked' :
                   c.fn = "_align_bookmarks" => c.by = "duration_until_bookmark"
        /\ Populated(tracker) =>
             /\ tracker'.bookmark_timestamps = tracker.bookmark_timestamps
             /\ Calls("_align_bookmarks")' = Calls("_align_bookmarks")
        /\ (tracker.alive /\ ~Populated(tracker) /\ tracker' # tracker) =>
             /\ Populated(tracker')
             /\ Calls("_align_bookmarks")' = Calls("_align_bookmarks") + 1
             /\ ret'.status \in {"ok", "AlignmentError"}
        /\ (tracker.alive /\ ~Populated(tracker)
                /\ ret'.op = "duration_until_bookmark") =>
             Calls("_align_bookmarks")' = Calls("_align_bookmarks") + 1 ]_vars

\* C8 witness: the tracker has answered a duration_until_bookmark from a
\* later bookmark, after remaining_duration reads and the construction, with
\* the one returning invocation made on an earlier call.
C8_Witness ==
    /\ Populated(tracker)
    /\ tracker.current_bookmark = <<"A">>
    /\ ret.op = "duration_until_bookmark"
    /\ ret.status = "ok"
    /\ ret.args = <<"B">>
    /\ Calls("_align_bookmarks") = 1

(***************************************************************************)
(* Properties of the alignment cache.                                      *)
(***************************************************************************)
AlignRequests ==
    { Request(service, SourceText(raw_text), NarrationAudio) :
        service \in Range(AlignmentServices), raw_text \in Range(RawTexts) }

\* C9: once a call of _align_bookmarks has returned, a later call with the same
\* raw text, service and audio file path returns the same mapping without
\* invoking align_chars, which the first returning call invoked exactly once
\* and whose result it wrote to the cache.
C9_SecondCallFromCache ==
    [][ \A req \in AlignRequests :
          (ret'.op = "_align_bookmarks" /\ ret'.args = req) =>
             IF Returned("_align_bookmarks", req) # {}
             THEN /\ ret'.status = "ok"
                  /\ Returned("_align_bookmarks", req) = {ret'.value}
                  /\ CallsFor("align_chars", req)' = CallsFor("align_chars", req)
                  /\ fs' = fs
             ELSE ret'.status = "ok" =>
                  /\ CallsFor("align_chars", req)'
                        = CallsFor("align_chars", req) + 1
                  /\ fs' # fs ]_vars

\* C9 witness: two calls for a text with two bookmarks, none of them at its
\* end, have returned the one mapping the back end computed, with a timestamp
\* that is not zero.
C9_Witness ==
    \E req \in AlignRequests :
        /\ req.service = CTCAligner
        /\ req.text = SourceText(OriginMark)
        /\ CallsFor("_align_bookmarks", req) = 2
        /\ CallsFor("align_chars", req) = 1
        /\ ret.status = "ok"
        /\ ret.value[<<"A">>] = 1
        /\ Returned("_align_bookmarks", req) = {ret.value}

(***************************************************************************)
(* Properties of the speech cache.                                         *)
(***************************************************************************)
SpeechRequests ==
    { Request(service, txt, <<>>) :
        service \in Range(SpeechServices), txt \in Range(SpeechTexts) }

Generation(req) ==
    CallsFor("generate_speech", req) + CallsFor("convert_to_wav", req)
        + CallsFor("audio_callback", req)

\* C10: once _get_speech has returned for a speech descriptor, every later
\* call with that descriptor returns the same path and invokes none of
\* generate_speech, convert_to_wav and audio_callback.
C10_CacheHitSkipsGeneration ==
    [][ \A req \in SpeechRequests :
          (ret'.op = "_get_speech" /\ ret'.args = req
                /\ Returned("_get_speech", req) # {}) =>
             /\ ret'.status = "ok"
             /\ Returned("_get_speech", req) = {ret'.value}
             /\ Generation(req)' = Generation(req)
             /\ fs' = fs ]_vars

\* C10 witness: a service that needs the conversion has been asked three
\* times for one text and has generated, converted and post-processed once.
C10_Witness ==
    \E req \in SpeechRequests :
        /\ req.service = gtts_service
        /\ CallsFor("_get_speech", req) = 3
        /\ Generation(req) = 3
        /\ ret.op = "_get_speech"
        /\ ret.args = req
        /\ ret.status = "ok"
        /\ ret.value.suffix = ".wav"
        /\ Returned("_get_speech", req) = {ret.value}

(***************************************************************************)
(* Properties of two processes sharing the cache directory.                *)
(***************************************************************************)
AllDone == procs # <<>> /\ \A p \in Procs : procs[p].pc = "done"

\* C11: whatever the interleaving of two processes requesting the same
\* uncached descriptor, no process reads (or is handed) a cache entry that is
\* missing or partially written, and when both have finished both have
\* returned the same result, which is the entry in the cache.
C11_RaceNeverCorrupts ==
    procs # <<>> =>
        /\ \A p \in Procs : procs[p].read \notin {"missing", "partial"}
        /\ AllDone =>
              /\ \A p \in Procs : procs[p].status = "ok"
              /\ \A p, q \in Procs : procs[p].value = procs[q].value

(***************************************************************************)
(* Properties of bookmark extraction.                                      *)
(***************************************************************************)
IsBookmarkTag(tok) == tok.type = "tag" /\ tok.name = bookmark

\* the bookmark tags of a text, in document order
BookmarkTags(raw_text) == SelectSeq(raw_text, IsBookmarkTag)

MarkValue(tok) == attrs_get(tok.attrs, mark)

AllSelfClosing(raw_text) ==
    \A i \in 1..Len(BookmarkTags(raw_text)) :
        BookmarkTags(raw_text)[i].kind = "startend"

AllMarked(raw_text) ==
    \A i \in 1..Len(BookmarkTags(raw_text)) :
        MarkValue(BookmarkTags(raw_text)[i]).isStr

SameMarkTwice(raw_text) ==
    \E i, j \in 1..Len(BookmarkTags(raw_text)) :
        /\ i < j
        /\ MarkValue(BookmarkTags(raw_text)[i]).isStr
        /\ MarkValue(BookmarkTags(raw_text)[i]) = MarkValue(BookmarkTags(raw_text)[j])

Extracted == ret.op = "_align_bookmarks"

RaisedWith(msg) == ret.status = "AlignmentError" /\ ret.msg = msg

\* C12 as stated: every text in which two bookmark tags carry the same mark
\* value makes _align_bookmarks raise the "unique name" AlignmentError.
C12_SameMarkAlwaysUniqueNameError ==
    (Extracted /\ SameMarkTwice(fed)) =>
        RaisedWith("Each bookmark should have a unique name.")

\* C12: for every text whose bookmark tags are all self-closing, two of them
\* carrying the same mark value, _align_bookmarks raises the "unique name"
\* AlignmentError, returns no mapping and aligns nothing, whether or not
\* other bookmark tags of the text lack a mark.
C12_SameMarkRejected ==
    (Extracted /\ AllSelfClosing(fed) /\ SameMarkTwice(fed)) =>
        /\ RaisedWith("Each bookmark should have a unique name.")
        /\ returned = EmptyMap
        /\ Calls("align_chars") = 0

\* C12 witness: <bookmark mark='A'/>x<bookmark mark='A'/> was rejected.
C12_Witness ==
    /\ Extracted
    /\ fed = << Bookmark("A"), DataTok(<<"x">>), Bookmark("A") >>
    /\ RaisedWith("Each bookmark should have a unique name.")

\* C13 as stated: every text whose bookmark tags are all self-closing and in
\* which at least one lacks a string mark makes _align_bookmarks raise the
\* "must define a mark attribute" AlignmentError, however many lack it.
C13_MissingMarkAlwaysReported ==
    (Extracted /\ AllSelfClosing(fed) /\ ~AllMarked(fed)) =>
        RaisedWith("Bookmarks must define a mark attribute.")

\* C14: every text with a bookmark tag that is not self-closing (an opening
\* or a closing <bookmark>) makes _align_bookmarks raise the "should be
\* self-closing" AlignmentError, whatever else is wrong with the text; no
\* mapping is returned and nothing is aligned.
C14_NotSelfClosingRejected ==
    (Extracted /\ ~AllSelfClosing(fed)) =>
        /\ RaisedWith("Bookmarks should be self-closing tags")
        /\ returned = EmptyMap
        /\ Calls("align_chars") = 0

\* C14 witness: <bookmark/><bookmark/></bookmark>, whose marks are missing
\* and repeated as well, was rejected for the closing tag.
C14_Witness ==
    /\ Extracted
    /\ fed = << TagTok("startend", bookmark, <<>>, "single"),
                TagTok("startend", bookmark, <<>>, "single"),
                TagTok("end", bookmark, <<>>, "double") >>
    /\ RaisedWith("Bookmarks should be self-closing tags")

\* a text _align_bookmarks accepts: every bookmark self-closing, with a
\* string mark, no mark used twice
IsValidText(raw_text) ==
    AllSelfClosing(raw_text) /\ AllMarked(raw_text) /\ ~SameMarkTwice(raw_text)

\* the mark names of a valid text, in document order
MarksOf(raw_text) ==
    [i \in 1..Len(BookmarkTags(raw_text)) |-> MarkValue(BookmarkTags(raw_text)[i]).str]

RECURSIVE OffsetsFrom(_, _)
\* for each bookmark of toks, in order, the number of plain characters of the
\* text before it, n characters having gone before toks
OffsetsFrom(toks, n) ==
    IF toks = <<>> THEN <<>>
    ELSE IF IsBookmarkTag(Head(toks))
    THEN <<n>> \o OffsetsFrom(Tail(toks), n)
    ELSE OffsetsFrom(Tail(toks), n + Len(Head(toks).chars))

\* the json file caching the alignment of raw_text by service
AlignmentFile(service, raw_text) ==
    with_suffix(
        Path(NarrationAudio.dir,
             get_hash_from_data(AlignmentData(SourceText(raw_text), service),
                                hash_algo, hash_len),
             ""),
        ".json")

\* C15 as stated: for a valid text with n bookmarks, wherever whitespace
\* stands and whether or not bookmarks are adjacent, align_chars is passed
\* the text with every tag removed and the n tag-free offsets of the
\* bookmarks in document order, and _align_bookmarks returns (unless the back
\* end of the aligner fails with its RuntimeError) the mapping that sends the
\* i-th bookmark's mark to the i-th timestamp of the tuple align_chars
\* returned (the tuple the cache holds).
C15_TagFreeTextOrderedOffsets ==
    (Extracted /\ IsValidText(fed)) =>
        LET n == Len(BookmarkTags(fed))
        IN  /\ ret.status \in {"ok", "RuntimeError"}
            /\ Calls("_align_bookmarks") = 1 => Len(ret.passed) = 1
            /\ \A i \in 1..Len(ret.passed) :
                  /\ ret.passed[i].text = TagFree(fed)
                  /\ ret.passed[i].char_offsets = OffsetsFrom(fed, 0)
                  /\ Len(ret.passed[i].char_offsets) = n
                  /\ ret.passed[i].audio_file_path = NarrationAudio
            /\ ret.status = "ok" =>
                  LET ts == json_load(fs[AlignmentFile(alignment_service, fed)])
                  IN  /\ Len(ts) = n
                      /\ DOMAIN ret.value = Range(MarksOf(fed))
                      /\ \A i \in 1..n : ret.value[MarksOf(fed)[i]] = ts[i]

(***************************************************************************)
(* Properties of the tracker's queries.                                    *)
(***************************************************************************)
\* the names a tracker can be asked about: the origin and the narration's marks
KnownMarks(t) == {Origin} \cup Range(MarksOf(t.raw_text))

Queried == ret.op = "duration_until_bookmark"

\* the fields of a tracker fixed by its construction
FixedFields(t) ==
    <<t.start_time, t.duration, t.end_time, t.raw_text, t.audio_file_path>>

\* C16: duration_until_bookmark(target) on a narration whose alignment
\* returns, with a target that is neither the origin nor one of its marks,
\* raises the AlignmentError naming the target; the alignment itself has
\* succeeded (a first query leaves the map populated with the origin and the
\* marks), and the failing query leaves current_bookmark and an already
\* populated bookmark_timestamps, with every other field, as they were.
C16_UnknownTargetRaisedAtQuery ==
    [][ ( /\ tracker.alive
          /\ Queried'
          /\ IsValidText(tracker.raw_text)
          /\ ret'.args \notin KnownMarks(tracker)
          /\ ret'.status \notin {"RuntimeError", "IndexError"} ) =>
        /\ ret'.status = "AlignmentError"
        /\ ret'.msg = DoesNotExist(ret'.args)
        /\ tracker'.current_bookmark = tracker.current_bookmark
        /\ FixedFields(tracker') = FixedFields(tracker)
        /\ DOMAIN tracker'.bookmark_timestamps = KnownMarks(tracker)
        /\ Populated(tracker) =>
              /\ tracker' = tracker
              /\ Calls("_align_bookmarks")' = Calls("_align_bookmarks") ]_vars

\* C16 witness: on "x<bookmark mark='A'/>yz<bookmark mark='B'/>", waiting at
\* A with the map populated, the query for Z was refused by name.
C16_Witness ==
    /\ Queried
    /\ tracker.raw_text = TwoMarks
    /\ tracker.current_bookmark = <<"A">>
    /\ DOMAIN tracker.bookmark_timestamps = {Origin, <<"A">>, <<"B">>}
    /\ ret.args = <<"Z">>
    /\ ret.status = "AlignmentError"
    /\ ret.msg = DoesNotExist(<<"Z">>)

\* C17 as stated: a populated bookmark_timestamps maps _origin_ to 0.0, for
\* every narration text and every alignment result.
C17_OriginAlwaysZero ==
    Populated(tracker) =>
        /\ Origin \in DOMAIN tracker.bookmark_timestamps
        /\ tracker.bookmark_timestamps[Origin] = 0

\* the timestamp of a known bookmark as the specification has it: 0.0 for the
\* origin, the aligned timestamp for a mark
TimestampOf(t, m) == IF m = Origin THEN 0 ELSE t.bookmark_timestamps[m]

\* C18 as stated: a successful duration_until_bookmark(target) returns
\* timestamp(target) - timestamp(current_bookmark), the origin being at 0.0.
C18_DifferenceFromOriginAtZero ==
    (Queried /\ ret.status = "ok") =>
        ret.value = TimestampOf(tracker, ret.args)
                    - TimestampOf(tracker, tracker.current_bookmark)

\* C19: in every state of a tracker and at every scene time, reading
\* remaining_duration gives end_time - scene_time when that is positive and 0
\* otherwise, end_time being start_time + duration; it is never negative, and
\* the reading changes neither the tracker, the scene time, the files nor the
\* calls made.
C19_RemainingDurationClamped ==
    /\ [](ret.op = "remaining_duration" =>
            /\ tracker.end_time = tracker.start_time + tracker.duration
            /\ ret.value >= 0
            /\ scene_time >= tracker.end_time => ret.value = 0
            /\ scene_time < tracker.end_time =>
                  ret.value = tracker.start_time + tracker.duration - scene_time)
    /\ [][ (tracker.alive /\ ret'.op = "remaining_duration") =>
               UNCHANGED <<tracker, scene_time, fs, invoked, returned>> ]_vars

\* C19 witness: remaining_duration was read after the end of a narration of
\* positive duration and gave 0.
C19_Witness ==
    /\ ret.op = "remaining_duration"
    /\ tracker.duration > 0
    /\ scene_time > tracker.end_time
    /\ ret.value = 0

\* C20 as stated: after construction the fixed fields never change,
\* duration_until_bookmark changes nothing but bookmark_timestamps and that
\* only on its first call, and current_bookmark changes only in
\* wait_until_bookmark.
C20_PopulatedOnFirstCall ==
    [][ tracker.alive =>
        /\ FixedFields(tracker') = FixedFields(tracker)
        /\ tracker'.current_bookmark # tracker.current_bookmark =>
              ret'.op = "current_bookmark"
        /\ tracker'.bookmark_timestamps # tracker.bookmark_timestamps =>
              /\ Queried'
              /\ Calls("_align_bookmarks") = 0 ]_vars

\* C20: after construction the fixed fields never change;
\* duration_until_bookmark changes nothing but bookmark_timestamps, which it
\* fills once, from empty, on the first call whose alignment returns (a call
\* whose alignment raises leaves the tracker as it was); and current_bookmark
\* changes only in wait_until_bookmark.
C20_OnlyMemoAndCurrentChange ==
    [][ tracker.alive =>
        /\ tracker'.alive
        /\ FixedFields(tracker') = FixedFields(tracker)
        /\ tracker'.current_bookmark # tracker.current_bookmark =>
              /\ ret'.op = "current_bookmark"
              /\ tracker'.bookmark_timestamps = tracker.bookmark_timestamps
        /\ tracker'.bookmark_timestamps # tracker.bookmark_timestamps =>
              /\ Queried'
              /\ ~Populated(tracker)
              /\ Populated(tracker')
              /\ Calls("_align_bookmarks")' = Calls("_align_bookmarks") + 1
        /\ (Queried' /\ ret'.status \notin {"ok", "AlignmentError"}) =>
              tracker' = tracker ]_vars

\* C20 witness: the first duration_until_bookmark raised in the aligner, the
\* second populated the map, and the scene has since moved to bookmark A.
C20_Witness ==
    /\ Populated(tracker)
    /\ Calls("_align_bookmarks") = 2
    /\ tracker.current_bookmark = <<"A">>
    /\ Queried
    /\ ret.status = "ok"

(***************************************************************************)
(* Properties of the Manual and Interpolation aligners.                    *)
(***************************************************************************)
Aligned(class) == ret.op = class \o ".align_chars"

\* |x|
Abs(x) == IF x < 0 THEN -x ELSE x

\* C23 as stated: for the Manual and Interpolation aligners, every tag-free
\* text (the empty one included), every tuple of offsets and every audio file,
\* align_chars raises nothing and returns exactly len(char_offsets) timestamps.
C23_OneTimestampPerOffsetNoError ==
    (Aligned("ManualAligner") \/ Aligned("InterpolationAligner")) =>
        /\ ret.status = "ok"
        /\ Len(ret.value) = Len(ret.args.char_offsets)

\* C24 as stated: for a text of length L > 0 and an audio of duration D the
\* Interpolation aligner maps every offset o to exactly D*o/L, so offset L to
\* exactly D.
C24_ExactlyLinear ==
    (Aligned("InterpolationAligner") /\ Len(ret.args.text) > 0) =>
        /\ ret.status = "ok"
        /\ \A i \in 1..Len(ret.value) :
              ret.value[i] * Len(ret.args.text)
                  = ret.args.duration * ret.args.char_offsets[i]

\* C24: for a text of length L > 0 and an audio of duration D the
\* Interpolation aligner maps every offset o to D*o/L rounded to a whole
\* number of milliseconds (at most half a millisecond away from D*o/L):
\* offset 0 to 0, offset L to D rounded to the millisecond, which is D itself
\* when D is a whole number of milliseconds; a larger offset never gets a
\* smaller timestamp.
C24_LinearToTheMillisecond ==
    (Aligned("InterpolationAligner") /\ Len(ret.args.text) > 0) =>
        LET L == Len(ret.args.text)
            D == ret.args.duration
            o == ret.args.char_offsets
        IN  /\ ret.status = "ok"
            /\ Len(ret.value) = Len(o)
            /\ \A i \in 1..Len(o) :
                  /\ ret.value[i] % TicksPerMs = 0
                  /\ 2 * Abs(ret.value[i] * L - D * o[i]) <= TicksPerMs * L
                  /\ o[i] = 0 => ret.value[i] = 0
                  /\ (o[i] = L /\ D % TicksPerMs = 0) => ret.value[i] = D
            /\ \A i, j \in 1..Len(o) : o[i] <= o[j] => ret.value[i] <= ret.value[j]

\* C24 witness: a text of 2 characters, an audio of 3 ticks (a millisecond and
\* a half) and the offsets (1, 2): offset 2 was mapped to a whole millisecond
\* next to the duration, not to the duration.
C24_Witness ==
    /\ Aligned("InterpolationAligner")
    /\ Len(ret.args.text) = 2
    /\ ret.args.duration = 3
    /\ ret.args.char_offsets = <<1, 2>>
    /\ ret.status = "ok"
    /\ ret.value[2] # 3

\* C25: ManualAligner.align_chars returns len(char_offsets) zeros for every
\* text, every tuple of offsets (the empty one included) and every audio
\* file, raises nothing and reads no file.
C25_ManualReturnsZeros ==
    Aligned("ManualAligner") =>
        /\ ret.status = "ok"
        /\ Len(ret.value) = Len(ret.args.char_offsets)
        /\ \A i \in 1..Len(ret.value) : ret.value[i] = 0
        /\ ret.reads = {}

\* C25 witness: the Manual aligner was given the empty text and the offsets
\* (3, 1) and returned two zeros.
C25_Witness ==
    /\ Aligned("ManualAligner")
    /\ ret.args.text = <<>>
    /\ ret.args.char_offsets = <<3, 1>>
    /\ ret.value = <<0, 0>>

(***************************************************************************)
(* Properties of get_hash_from_data.                                       *)
(***************************************************************************)
RECURSIVE Content(_)
\* what a JSON value holds, whatever the order its mappings were filled in
Content(value) ==
    IF value.t = "dict"
    THEN [t |-> "dict",
          v |-> { <<value.v[i][1], Content(value.v[i][2])>> : i \in DOMAIN value.v }]
    ELSE IF value.t = "list"
    THEN [t |-> "list", v |-> [i \in DOMAIN value.v |-> Content(value.v[i])]]
    ELSE value

HashCalls == { ret.calls[k] : k \in 1..Len(ret.calls) }

IsMapping(i) == HashInputs[i].t = "dict"

\* C26: two calls of get_hash_from_data with the same algorithm and length
\* on mappings of equal content end the same way and return the same digest,
\* whatever the insertion order of the keys at the top level, inside a nested
\* mapping or inside a list, and whether or not it is the same mapping.
C26_KeyOrderIrrelevant ==
    ret.op = "get_hash_from_data" =>
        \A c, d \in HashCalls :
            (IsMapping(c.data) /\ IsMapping(d.data)
             /\ Content(HashInputs[c.data]) = Content(HashInputs[d.data]))
            => (c.status = d.status /\ c.value = d.value)

\* C26 witness: the mapping with a nested service_kwargs was hashed in two
\* insertion orders (both levels reordered) and gave one non-empty digest.
C26_Witness ==
    /\ ret.op = "get_hash_from_data"
    /\ Len(ret.calls) = 2
    /\ ret.calls[1].data = 5
    /\ ret.calls[2].data = 6
    /\ ret.calls[1].status = "ok"
    /\ ret.calls[1].value # <<>>
    /\ ret.calls[1].value = ret.calls[2].value

\* C27: a returning call of get_hash_from_data whose algorithm gives a
\* digest of F hex digits returns the first min(hash_len, F) digits of that
\* digest when hash_len > 0 and the whole digest when hash_len <= 0; F is
\* DigestLen for sha256.
C27_PrefixOfLength ==
    ret.op = "get_hash_from_data" =>
        \A c \in HashCalls :
            c.status = "ok" =>
                LET full == hashlib_hexdigest(ret.args.hash_algo,
                                              json_dumps(HashInputs[c.data])).value
                    F    == Len(full)
                    n    == ret.args.hash_len
                IN  /\ ret.args.hash_algo = "sha256" => F = DigestLen
                    /\ n > 0 => /\ Len(c.value) = (IF n < F THEN n ELSE F)
                                /\ c.value = SubSeq(full, 1, Len(c.value))
                    /\ n <= 0 => c.value = full

\* C27 witness: the empty mapping was hashed with sha256 and a negative
\* length and the whole digest came back.
C27_Witness ==
    /\ ret.op = "get_hash_from_data"
    /\ ret.args.hash_algo = "sha256"
    /\ ret.args.hash_len < 0
    /\ Len(ret.calls) >= 1
    /\ ret.calls[1].data = 1
    /\ ret.calls[1].status = "ok"
    /\ Len(ret.calls[1].value) = DigestLen

\* C28: a call of get_hash_from_data on a value that is not a mapping (a
\* list, a number, a string) raises NotImplementedError whatever the algorithm
\* and the length, and gives nothing to hashlib.
C28_NonMappingRejected ==
    ret.op = "get_hash_from_data" =>
        \A c \in HashCalls :
            ~IsMapping(c.data) =>
                /\ c.status = "NotImplementedError"
                /\ c.value = <<>>
                /\ c.hashed = {}

\* C28 witness: a list holding a mapping was given to get_hash_from_data
\* with an algorithm hashlib does not know and NotImplementedError was raised.
C28_Witness ==
    /\ ret.op = "get_hash_from_data"
    /\ ret.args.hash_algo = "nope"
    /\ Len(ret.calls) >= 1
    /\ HashInputs[ret.calls[1].data] = JList(<< JDict(<<>>) >>)
    /\ ret.calls[1].status = "NotImplementedError"

(***************************************************************************)
(* Properties of the speech cache.                                         *)
(***************************************************************************)
\* the speech descriptors _get_speech has been called with
RequestedSpeech == { c.req : c \in { d \in DOMAIN invoked : d.fn = "_get_speech" } }

\* {cache_dir}/{digest of the descriptor}/{audio_file_base_name}.wav
CachedAudio(req) ==
    Path(<<cache_dir, get_hash_from_data(SpeechData(req.text, req.service),
                                         hash_algo, hash_len)>>,
         audio_file_base_name, ".wav")

\* no call of _get_speech has raised: every call that reached generate_speech
\* went on to its last statement
AllSucceeded == Calls("generate_speech") = Calls("audio_callback")

\* C29: as long as every _get_speech call has returned, the files of the
\* cache are exactly the .wav files of the descriptors requested, one per
\* distinct descriptor at {cache_dir}/{digest}/{audio_file_base_name}.wav,
\* each a complete .wav recording; no file of another format
\* (the intermediate file of a service that does not produce .wav) is left.
C29_OneWavPerDescriptor ==
    AllSucceeded =>
        /\ DOMAIN fs = { CachedAudio(req) : req \in RequestedSpeech }
        /\ Cardinality(DOMAIN fs) = Cardinality(RequestedSpeech)
        /\ \A req \in RequestedSpeech :
              /\ fs[CachedAudio(req)].kind = "audio"
              /\ fs[CachedAudio(req)].format = ".wav"
              /\ fs[CachedAudio(req)].complete
        /\ \A path \in DOMAIN fs : path.suffix = ".wav"

\* C29 witness: three calls have returned, for two descriptors, one of them
\* of the service that produces .mp3 files, and the cache holds two files.
C29_Witness ==
    /\ AllSucceeded
    /\ Calls("_get_speech") = 3
    /\ Cardinality(RequestedSpeech) = 2
    /\ \E req \in RequestedSpeech : req.service = gtts_service
    /\ Cardinality(DOMAIN fs) = 2
    /\ ret.status = "ok"

(***************************************************************************)
(* Properties of the scene.                                                *)
(***************************************************************************)
Waited == ret.op \in {"wait_until_bookmark", "wait_for_narration_to_finish"}

\* the tracker scene.tracker refers to
Live(sc) == sc.trackers[sc.tracker]

\* the last operation was an add_narration, or the entry of a with-block,
\* whose identifiers name services of the registries of the scene
AddedWithServices ==
    /\ ret.op \in {"add_narration", "narration"}
    /\ _get_speech_service_from_id(scene.speech_services,
                                   ret.args.speech_service_id).status = "ok"
    /\ _get_alignment_service_from_id(scene.alignment_services,
                                      ret.args.alignment_service_id).status = "ok"

\* C21 as stated: an add_narration whose services are registered creates a
\* tracker (unless the speech back end fails) and scene.tracker is then that
\* tracker, the one created last; wait_until_bookmark and
\* wait_for_narration_to_finish read that tracker only, and no step changes
\* a tracker other than the one scene.tracker is after the step.
C21_OnlyLatestTrackerLive ==
    /\ [](scene.alive =>
            /\ scene.tracker = Len(scene.trackers)
            /\ Waited => ret.on = scene.tracker
            /\ AddedWithServices =>
                  /\ ret.status \in {"ok", "RuntimeError"}
                  /\ ret.status = "ok" =>
                        /\ scene.tracker # 0
                        /\ Live(scene).raw_text = ret.args.text
                        /\ Live(scene).start_time = scene_time)
    /\ [][ \A i \in 1..Len(scene.trackers) :
              i # scene'.tracker => scene'.trackers[i] = scene.trackers[i] ]_vars

C30_DefaultIsFirstRegistered ==
    /\ [](scene.alive =>
            /\ (ret.op = "_get_speech_service_from_id" /\ scene.speech_services # <<>>) =>
                  LET id == ret.args.speech_service_id
                  IN  /\ id = None =>
                            /\ ret.status = "ok"
                            /\ ret.value = scene.speech_services[1][2]
                      /\ (id \notin {None, ""} /\ registered(scene.speech_services, id)) =>
                            /\ ret.status = "ok"
                            /\ ret.value = getitem(scene.speech_services, id)
            /\ (ret.op = "_get_alignment_service_from_id"
                /\ scene.alignment_services # <<>>) =>
                  LET id == ret.args.alignment_service_id
                  IN  /\ id = None =>
                            /\ ret.status = "ok"
                            /\ ret.value = scene.alignment_services[1][2]
                            /\ scene.alignment_services[1][1] = "default"
                                  => ret.value = InterpolationAligner
                      /\ (id \notin {None, ""} /\ registered(scene.alignment_services, id)) =>
                            /\ ret.status = "ok"
                            /\ ret.value = getitem(scene.alignment_services, id))
    /\ [][ /\ ret'.op = "set_speech_services"
                => scene'.speech_services = ret'.args.registry
           /\ ret'.op = "set_alignment_services"
                => scene'.alignment_services = ret'.args.registry
           /\ ret'.op \notin {"set_speech_services", "set_alignment_services"}
                => /\ scene'.speech_services = scene.speech_services
                   /\ scene'.alignment_services = scene.alignment_services ]_vars

\* C30 witness: set_alignment_services(a=ManualAligner(), b=InterpolationAligner())
\* was the last registration and the lookup without identifier returned the
\* ManualAligner.
C30_Witness ==
    /\ scene.alive
    /\ ret.op = "_get_alignment_service_from_id"
    /\ ret.args.alignment_service_id = None
    /\ scene.alignment_services =
          << <<"a", ManualAligner>>, <<"b", InterpolationAligner>> >>
    /\ ret.status = "ok"
    /\ ret.value = ManualAligner

(***************************************************************************)
(* Properties of the service lookups.                                      *)
(***************************************************************************)
\* C31: whatever the registries hold (nothing included) and whatever the
\* identifier (None and "" included), _get_speech_service_from_id returns a
\* registered speech service or raises SpeechServiceError, and
\* _get_alignment_service_from_id returns a registered alignment service or
\* raises AlignmentError; no other exception leaves a lookup.
C31_OnlyDomainErrors ==
    scene.alive =>
        /\ ret.op = "_get_speech_service_from_id" =>
              \/ ret.status = "SpeechServiceError"
              \/ /\ ret.status = "ok"
                 /\ \E i \in 1..Len(scene.speech_services) :
                       scene.speech_services[i][2] = ret.value
        /\ ret.op = "_get_alignment_service_from_id" =>
              \/ ret.status = "AlignmentError"
              \/ /\ ret.status = "ok"
                 /\ \E i \in 1..Len(scene.alignment_services) :
                       scene.alignment_services[i][2] = ret.value

(***************************************************************************)
(* The package module manim_narration and its lazily built config object.  *)
(***************************************************************************)
\* the names of the module once its body has run: those the body binds (the
\* imports of lines 1-5, __all__ and __getattr__; line 13 is an annotation
\* without value and binds nothing) and the submodules the import of line 5
\* has loaded, each bound in the package by the import system
ModuleNames ==
    {"t", "manim", "NarrationScene", "__all__", "__getattr__"} \cup
    {"narration_scene", "tags", "utils", "_config", "alignment", "audio_utils",
     "speech", "tracker", "typing"}

\* the namespace right after an `import manim_narration` that has run the
\* body of __init__.py to its end; config is the NarrationConfig instance
\* bound to the name config (0: the name is not bound), built the instances
\* constructed so far
ImportedModule ==
    [imported |-> TRUE, names |-> ModuleNames, config |-> 0, built |-> 0]

\* the names typing.py defines
TypingNames == {"t", "T", "SpeechData", "all_strings"}

\* the names aligner_base.py:9 imports from manim_narration.typing; the
\* statement runs when the package is imported (__init__.py:5,
\* narration_scene.py:11, alignment/__init__.py:3, interpolator.py:5)
NamesFromTyping == {"AlignmentData", "all_strings"}

\* import manim_narration: nothing to do for a module that is imported;
\* otherwise the body of __init__.py runs, and a name that its imports do
\* not find ends it with ImportError and leaves no module behind
import_package(ns) ==
    IF ns.imported
    THEN [status |-> "ok", ns |-> ns]
    ELSE IF NamesFromTyping \subseteq TypingNames
    THEN [status |-> "ok", ns |-> ImportedModule]
    ELSE [status |-> "ImportError", ns |-> NoModule]

\* what the name config is bound to once the directory config/ of the
\* package has been imported as a submodule: a module, no NarrationConfig
ConfigDirectory == -1

\* the attribute names read from the module
AttrNames ==
    {"config", "NarrationScene", "__all__", "tags", "some_random_name", "logger"}

\* the value bound to a name of the module: the config instance for config, 0
\* for the other names (their values play no part)
bound(ns, name) == IF name = "config" THEN ns.config ELSE 0

\* __getattr__(name) of __init__.py; raises: the constructor NarrationConfig
\* raised (an invalid configuration source)
module_getattr(ns, name, raises) ==
    IF name = "config" /\ "config" \notin ns.names
    THEN IF raises
         THEN [status |-> "ValidationError", value |-> 0, ns |-> ns]
         ELSE [status |-> "ok", value |-> ns.built + 1,
               ns |-> [ns EXCEPT !.built = @ + 1,
                                 !.config = ns.built + 1,
                                 !.names = @ \cup {"config"}]]
    ELSE [status |-> "AttributeError", value |-> 0, ns |-> ns]

\* the attribute access module.name: the module's namespace first, then
\* __getattr__
module_attribute(ns, name, raises) ==
    IF name \in ns.names
    THEN [status |-> "ok", value |-> bound(ns, name), ns |-> ns]
    ELSE module_getattr(ns, name, raises)

\* from manim_narration import name: the attribute is read as by module.name
\* and, when that raises AttributeError, a submodule of that name is looked
\* for; the names read here are none, and the statement raises ImportError
\* (cannot import name)
import_from(ns, name, raises) ==
    LET r == module_attribute(ns, name, raises)
    IN  IF r.status = "AttributeError" THEN [r EXCEPT !.status = "ImportError"]
        ELSE r

\* the last operation on the module and, in reads, every attribute read made
\* so far with what it returned or raised
ModuleRet(op, name, status, value, reads) ==
    [op |-> op, name |-> name, status |-> status, value |-> value, reads |-> reads]

InitModule ==
    /\ IdleParser
    /\ fs = EmptyMap
    /\ IdleTracker
    /\ invoked = EmptyMap
    /\ returned = EmptyMap
    /\ IdleRace
    /\ IdleScene
    /\ IdleModule
    /\ ret = ModuleRet("", "", "ok", 0, <<>>)

ModuleFrame == <<parserVars, raceVars, trackerVars, sceneVars, fs, invoked, returned>>

\* import manim_narration, the package not being in sys.modules
ImportModule ==
    /\ ~namespace.imported
    /\ LET i == import_package(namespace)
       IN  /\ namespace' = i.ns
           /\ ret' = ModuleRet("import", "", i.status, 0, ret.reads)
    /\ UNCHANGED ModuleFrame

\* import manim_narration.config.config: the package is imported first;
\* the directory config/ is then loaded as a package without __init__.py and
\* bound to the name config of manim_narration, and config/config.py ends
\* with ModuleNotFoundError at its import of .base
ImportSubmodule ==
    /\ LET i == import_package(namespace)
       IN  IF i.status # "ok"
           THEN /\ namespace' = i.ns
                /\ ret' = ModuleRet("import_submodule", "config", i.status, 0, ret.reads)
           ELSE /\ namespace' = [i.ns EXCEPT !.names = @ \cup {"config"},
                                             !.config = ConfigDirectory]
                /\ ret' = ModuleRet("import_submodule", "config",
                                    "ModuleNotFoundError", 0, ret.reads)
    /\ UNCHANGED ModuleFrame

\* `import manim_narration as mn; mn.<name>` (form getattr) or `from
\* manim_narration import <name>` (form import_from), as in the config
\* property of the services' Config class and in config_base.py:180: the
\* package is imported unless it is already, and the attribute is read
ReadAttribute(form, name, raises) ==
    /\ Len(ret.reads) < MaxReads
    /\ LET i == import_package(namespace)
           r == IF i.status # "ok"
                THEN [status |-> i.status, value |-> 0, ns |-> i.ns]
                ELSE IF form = "import_from" THEN import_from(i.ns, name, raises)
                ELSE module_attribute(i.ns, name, raises)
       IN  /\ namespace' = r.ns
           /\ ret' = ModuleRet(form, name, r.status, r.value,
                               Append(ret.reads, [name |-> name, status |-> r.status,
                                                  value |-> r.value]))
    /\ UNCHANGED ModuleFrame

NextModule ==
    \/ ImportModule
    \/ ImportSubmodule
    \/ \E form \in {"getattr", "import_from"}, name \in AttrNames, raises \in BOOLEAN :
          ReadAttribute(form, name, raises)

SpecModule == InitModule /\ [][NextModule]_vars

(***************************************************************************)
(* Properties of the package module.                                       *)
(***************************************************************************)
\* C32 as stated: importing the package constructs no config object; a read
\* of manim_narration.config returns the object (unless its constructor
\* raises), which the read that first returns one constructs and binds to
\* the name config in the module namespace; every later read returns that
\* same instance and constructs nothing; reading an unknown attribute raises
\* AttributeError and constructs nothing.
C32_ConfigBuiltOnceOnFirstRead ==
    /\ [](/\ ret.op = "import" =>
                /\ ret.status = "ok"
                /\ namespace.imported
                /\ namespace.built = 0
                /\ "config" \notin namespace.names
          /\ (ret.op = "getattr" /\ ret.name = "config") =>
                ret.status \in {"ok", "ValidationError"}
          /\ (ret.op = "getattr" /\ ret.name \notin ModuleNames \cup {"config"}) =>
                ret.status = "AttributeError"
          /\ namespace.imported =>
                /\ namespace.built <= 1
                /\ "config" \in namespace.names <=> namespace.built = 1
                /\ "config" \in namespace.names => namespace.config = 1
                /\ \A i \in 1..Len(ret.reads) :
                      (ret.reads[i].name = "config" /\ ret.reads[i].status = "ok") =>
                          /\ ret.reads[i].value = namespace.config
                          /\ "config" \in namespace.names
                /\ \A i, j \in 1..Len(ret.reads) :
                      (/\ i < j
                       /\ ret.reads[i].name = "config" /\ ret.reads[i].status = "ok"
                       /\ ret.reads[j].name = "config") =>
                          /\ ret.reads[j].status = "ok"
                          /\ ret.reads[j].value = ret.reads[i].value)
    /\ [][ /\ (namespace.imported /\ "config" \in namespace.names) =>
                namespace' = namespace
           /\ (namespace.imported /\ ret'.name # "config") =>
                namespace' = namespace ]_vars

\* the strings given as splits: the empty one and, for each length, one
\* string of that length
SplitLetters == <<"a", "b", "c", "d", "e">>

SplitStrings == { [i \in 1..k |-> SplitLetters[k]] : k \in 0..MaxSplitLen }

RegroupArgs ==
    [splits : UNION { [1..n -> SplitStrings] : n \in 0..MaxSplits },
     max_len : (0 - 1)..(MaxSplitLen + 2)]

InitRegroup ==
    /\ IdleParser
    /\ fs = EmptyMap
    /\ IdleTracker
    /\ invoked = EmptyMap
    /\ returned = EmptyMap
    /\ IdleRace
    /\ IdleScene
    /\ IdleModule
    /\ \E args \in RegroupArgs :
          ret = [op |-> "", args |-> args, value |-> <<>>]

\* regroup_splits(splits, max_len)
RegroupSplits ==
    /\ ret.op = ""
    /\ ret' = [ret EXCEPT !.op = "regroup_splits",
                          !.value = regroup_splits(ret.args.splits, ret.args.max_len)]
    /\ UNCHANGED <<moduleVars, sceneVars, parserVars, raceVars, trackerVars, fs, invoked, returned>>

NextRegroup == RegroupSplits

SpecRegroup == InitRegroup /\ [][NextRegroup]_vars

(***************************************************************************)
(* Properties of regroup_splits.                                           *)
(***************************************************************************)
RECURSIVE JoinedBySpace(_)
\* the strings of a list joined by single spaces
JoinedBySpace(strings) ==
    IF strings = <<>> THEN <<>>
    ELSE IF Len(strings) = 1 THEN strings[1]
    ELSE strings[1] \o <<" ">> \o JoinedBySpace(Tail(strings))

NonEmpty(strings) == SelectSeq(strings, LAMBDA x : x # <<>>)

\* C33: a non-empty split joins the current group exactly when the merged
\* string, the joining space included, has at most max_len characters; so the
\* result holds no empty string, each of its elements has at most max_len
\* characters unless it is one input split longer than that, and the result
\* joined by spaces is the non-empty input splits joined by spaces.
C33_MergesExactlyWhenFits ==
    ret.op = "regroup_splits" =>
        LET splits  == ret.args.splits
            max_len == ret.args.max_len
            result  == ret.value
        IN  /\ \A i \in 1..Len(result) :
                  /\ result[i] # <<>>
                  /\ \/ Len(result[i]) <= max_len
                     \/ \E j \in 1..Len(splits) : splits[j] = result[i]
            /\ JoinedBySpace(result) = JoinedBySpace(NonEmpty(splits))
            /\ \A i \in 1..(Len(result) - 1) :
                  \A j \in 1..Len(splits) :
                     (splits[j] # <<>> /\ IsPrefix(splits[j], result[i + 1])) =>
                         Len(result[i]) + 1 + Len(splits[j]) > max_len

(***************************************************************************)
(* _align_bookmarks on a cache directory that may already hold an entry    *)
(* under the key of the request.                                           *)
(***************************************************************************)
\* the .json file _align_chars_and_cache uses for a raw text and a service
StoredPath(raw_text, service) ==
    with_suffix(Path(NarrationAudio.dir,
                     get_hash_from_data(AlignmentData(SourceText(raw_text), service),
                                        hash_algo, hash_len),
                     ""),
                ".json")

\* the cache directory before the call: the audio file alone, or with an
\* entry under the key of the request, holding no timestamp or one
StoredFiles(raw_text, service) ==
    { AudioOnly,
      write(AudioOnly, StoredPath(raw_text, service), json_dump(<<>>)),
      write(AudioOnly, StoredPath(raw_text, service), json_dump(<<0>>)) }

InitStored ==
    /\ parser = TagParser(Names({bookmark_mapping}), DEFAULT)
    /\ fed \in BookmarkTexts
    /\ tracker = NoTracker
    /\ scene_time = 0
    /\ alignment_service \in Range(AlignmentServices)
    /\ fs \in StoredFiles(fed, alignment_service)
    /\ IdleCache
    /\ IdleRace
    /\ IdleScene
    /\ IdleModule

\* alignment_service._align_bookmarks(raw_text, audio_file_path), with the
\* accesses it made to the cache
AlignStored ==
    /\ Calls("_align_bookmarks") < 1
    /\ LET req == Request(alignment_service, SourceText(fed), NarrationAudio)
       IN  \E o \in _align_bookmarks(alignment_service, fed, NarrationAudio, fs) :
              /\ fs' = o.fs
              /\ invoked' = Record(invoked, <<"_align_bookmarks">> \o o.calls,
                                   "caller", req)
              /\ returned' = IF o.status = "ok"
                             THEN Return("_align_bookmarks", req, o.value)
                             ELSE returned
              /\ ret' = [op |-> "_align_bookmarks", args |-> req, status |-> o.status,
                         msg |-> o.msg, value |-> o.value, passed |-> o.passed,
                         cache |-> o.cache, before |-> fs]
    /\ parser' = feed(TagParser(Names({bookmark_mapping}), DEFAULT), fed)
    /\ UNCHANGED <<moduleVars, sceneVars, fed, raceVars, trackerVars>>

NextStored == AlignStored

SpecStored == InitStored /\ [][NextStored]_vars

\* a raw text that fails the validation of _align_bookmarks: a bookmark tag
\* that is not self-closing, two bookmarks with the same mark, or a bookmark
\* without mark
FailsValidation(raw_text) ==
    \/ ~AllSelfClosing(raw_text)
    \/ ~AllMarked(raw_text)
    \/ SameMarkTwice(raw_text)

\* C34: for a raw text that fails the validation, _align_bookmarks raises
\* AlignmentError without having looked at, read or written the cache and
\* without having called align_chars: an entry already stored under the key
\* of the request does not hide the error, and the files of the cache
\* directory are after the call what they were before it.
C34_ValidationBeforeCache ==
    (ret.op = "_align_bookmarks" /\ FailsValidation(fed)) =>
        /\ ret.status = "AlignmentError"
        /\ ret.cache = <<>>
        /\ ret.passed = <<>>
        /\ Calls("align_chars") = 0
        /\ fs = ret.before

\* C34 witness: the text <bookmark/> (no mark) was validated while the cache
\* held an entry under the key of the request, and the error was raised.
C34_Witness ==
    /\ ret.op = "_align_bookmarks"
    /\ fed = << TagTok("startend", bookmark, <<>>, "single") >>
    /\ exists(ret.before, StoredPath(fed, alignment_service))
    /\ ret.status = "AlignmentError"
    /\ ret.msg = "Bookmarks must define a mark attribute."
    /\ fs = ret.before

(***************************************************************************)
(* Properties of wait_until_bookmark, on a scene whose tracker (built by   *)
(* the constructor of tracker.py) and alignment_service were assigned by   *)
(* the script: add_narration raises before it assigns a tracker, and no    *)
(* method of the scene assigns alignment_service.                          *)
(***************************************************************************)
WaitedForBookmark == ret.op = "wait_until_bookmark" /\ ret.on # 0

\* C35: wait_until_bookmark(target, offset) makes the scene wait
\* max(one frame, duration + offset), duration being the timestamp of the
\* target less the timestamp of the bookmark that was current, and then makes
\* the target the current bookmark: when the call returns, the clock is the
\* clock of the call plus that wait and the target is current; when the
\* lookup raises AlignmentError the clock and the current bookmark are what
\* they were.
C35_WaitThenMark ==
    [][ (scene.alive /\ ret'.op = "wait_until_bookmark" /\ ret'.on # 0) =>
          LET before == Live(scene)
              after  == Live(scene')
              ts     == after.bookmark_timestamps
          IN  /\ ret'.on = scene.tracker
              /\ scene'.tracker = scene.tracker
              /\ ret'.status = "ok" =>
                    /\ ret'.args.target_mark \in DOMAIN ts
                    /\ ret'.waited =
                          Max(one_frame,
                              ts[ret'.args.target_mark] - ts[before.current_bookmark]
                                  + ret'.args.offset)
                    /\ scene.wait.active
                    /\ scene_time' = scene.wait.since + ret'.waited
                    /\ after.current_bookmark = ret'.args.target_mark
              /\ ret'.status = "AlignmentError" =>
                    /\ scene_time' = scene_time
                    /\ ret'.waited = 0
                    /\ after.current_bookmark = before.current_bookmark ]_vars

\* C35 witness: a wait for bookmark B with offset 1 has waited more than one
\* frame and more than the duration until B, and B is the current bookmark.
C35_Witness ==
    /\ scene.alive
    /\ WaitedForBookmark
    /\ ret.status = "ok"
    /\ ret.args.target_mark = <<"B">>
    /\ ret.args.offset = 1
    /\ ret.waited > one_frame
    /\ Live(scene).current_bookmark = <<"B">>
    /\ ret.waited = Live(scene).bookmark_timestamps[<<"B">>] + 1

\* C36: after any sequence of wait_until_bookmark calls on a narration, those
\* that raised included, the current bookmark of its tracker is the origin
\* marker or a mark of the tracker's bookmark_timestamps, and no
\* wait_until_bookmark ends with the KeyError of the lookup of the current
\* bookmark.
C36_CurrentBookmarkKnown ==
    scene.alive =>
        /\ \A i \in 1..Len(scene.trackers) :
              LET t == scene.trackers[i]
              IN  /\ \/ t.current_bookmark = Origin
                     \/ t.current_bookmark \in DOMAIN t.bookmark_timestamps
                  /\ t.bookmark_timestamps # EmptyMap =>
                        t.current_bookmark \in DOMAIN t.bookmark_timestamps
        /\ ret.op = "wait_until_bookmark" => ret.status # "KeyError"

\* C36 witness: bookmark B was reached, then a wait for the unknown bookmark Z
\* raised AlignmentError, and B is still the current bookmark.
C36_Witness ==
    /\ scene.alive
    /\ WaitedForBookmark
    /\ ret.status = "AlignmentError"
    /\ ret.args.target_mark = <<"Z">>
    /\ Live(scene).current_bookmark = <<"B">>
    /\ <<"B">> \in DOMAIN Live(scene).bookmark_timestamps

\* C37: for a narration started at start_time, after any sequence of
\* wait_until_bookmark calls with offset 0 and of other waits, the scene clock
\* is at or past start_time + the timestamp of the current bookmark.
C37_ClockPastCurrentBookmark ==
    scene.alive =>
        \A i \in 1..Len(scene.trackers) :
            LET t == scene.trackers[i]
            IN  t.current_bookmark \in DOMAIN t.bookmark_timestamps =>
                    scene_time >= t.start_time + t.bookmark_timestamps[t.current_bookmark]

(***************************************************************************)
(* A failed alignment leaves no trace.                                     *)
(***************************************************************************)
\* align_chars raised in the query that has just returned: of the services of
\* the tracker model only the model-based aligner raises, the RuntimeError of
\* its back end or the IndexError of an offset at the end of the text
AlignCharsRaised == Queried /\ ret.status \in {"RuntimeError", "IndexError"}

\* C39: when align_chars raises inside _align_chars_and_cache, the error
\* reaches the caller of duration_until_bookmark, the call was a miss that
\* invoked align_chars once, no file exists under the key of the request
\* afterwards and the cache directory is as it was, the tracker is as it was
\* with bookmark_timestamps empty, and the next duration_until_bookmark of the
\* tracker is a miss again: it invokes _align_bookmarks and align_chars anew.
C39_FailureLeavesNoTrace ==
    [][ /\ AlignCharsRaised' =>
             /\ Calls("align_chars")' = Calls("align_chars") + 1
             /\ ~exists(fs', StoredPath(tracker.raw_text, alignment_service))
             /\ fs' = fs
             /\ tracker' = tracker
             /\ ~Populated(tracker')
        /\ (AlignCharsRaised /\ Queried') =>
             /\ Calls("_align_bookmarks")' = Calls("_align_bookmarks") + 1
             /\ Calls("align_chars")' = Calls("align_chars") + 1
             /\ ret'.status \in {"ok", "AlignmentError", "RuntimeError", "IndexError"} ]_vars

\* C39 witness: the first query of the tracker raised in align_chars, the
\* second, a miss again, was answered with the timestamp of bookmark A, and
\* the cache now holds the entry of the request.
C39_Witness ==
    /\ Queried
    /\ ret.status = "ok"
    /\ ret.args = <<"A">>
    /\ ret.value > 0
    /\ Calls("_align_bookmarks") = 2
    /\ Calls("align_chars") = 2
    /\ exists(fs, StoredPath(tracker.raw_text, alignment_service))

(***************************************************************************)
(* The text that is spoken and the text that is aligned.                   *)
(***************************************************************************)
\* the statements of add_narration that make the text given to the speech
\* service (narration_scene.py:173-178), run on the text fed is: the parser
\* that removes the tags the configuration lists is fed with it, and the
\* white space of its text is collapsed
CleanUpText ==
    /\ Calls("clean_text") < MaxCalls
    /\ LET req == Request(alignment_service, SourceText(fed), NarrationAudio)
       IN  /\ invoked' = Record(invoked, <<"clean_text">>, "caller", req)
           /\ returned' = Return("clean_text", req, spoken_text(fed))
    /\ parser' = feed(TagParser(DEFAULT, Names({bookmark_mapping})), fed)
    /\ UNCHANGED <<moduleVars, sceneVars, fed, fs, ret, raceVars, trackerVars>>

\* one text is cleaned up as add_narration does for the speech service and
\* aligned by _align_bookmarks
NextSpoken == AlignText \/ CleanUpText

SpecSpoken == InitValidate /\ [][NextSpoken]_vars

\* the texts add_narration has made of the text fed for the speech service
Spoken == Returned("clean_text", Request(alignment_service, SourceText(fed), NarrationAudio))

\* C40 as stated: for every narration text, the text _align_bookmarks passes
\* to align_chars with the offsets of the bookmarks is the text the clean-up
\* of add_narration makes of it for the speech service.
C40_AlignedTextIsSpokenText ==
    (Extracted /\ ret.passed # <<>>) =>
        \A spoken \in Spoken : ret.passed[1].text = spoken

\* scene.add_subcaption_text(txt, duration, max_subcaption_len=...)
AddSubcaptionText(txt, duration, max_subcaption_len) ==
    /\ ~scene.wait.active
    /\ scene.alive
    /\ Len(scene.subcaptions) <= MaxSubcaptions
    /\ \E o \in add_subcaption_text_chunks(scene, txt, duration, None, max_subcaption_len,
                                           DefaultSubcaptionBuff,
                                           prefer_splitting_after_chars, fs) :
          /\ scene' = o.scene
          /\ fs' = o.fs
          /\ ret' = SceneRet("add_subcaption_text",
                             [text |-> txt, max_subcaption_len |-> max_subcaption_len],
                             o.status, o.aligned, scene.tracker, 0)
    /\ UNCHANGED <<SceneFrame, scene_time>>

\* service._align_chars_and_cache(txt, char_offsets, audio_file_path,
\* alignment_data) with the alignment data both callers make of a text and a
\* service (narration_scene.py:260-264, aligner_base.py:160-162)
AlignCharsAndCache(service, txt, char_offsets) ==
    /\ ~scene.wait.active
    /\ \E o \in _align_chars_and_cache(service, txt, char_offsets, NarrationAudio,
                                       AlignmentData(txt, service), fs) :
          /\ fs' = o.fs
          /\ ret' = SceneRet("_align_chars_and_cache",
                             [text |-> txt, max_subcaption_len |-> 0],
                             o.status, ChunkRequest(char_offsets, o), 0, 0)
    /\ UNCHANGED <<SceneFrame, sceneVars, scene_time>>

\* the texts given to add_subcaption_text: the one of the narration and the
\* empty one
ChunkTexts == { SourceText(Dotted), <<>> }

\* the character offsets asked for the text of the narration: those of its
\* chunks of at most 1 to 3 characters, as add_subcaption_text computes them,
\* and those of its bookmarks, none, as _align_bookmarks does
ChunkOffsets ==
    { chunk_offsets(flattened_chunks(SourceText(Dotted), max_subcaption_len,
                                     prefer_splitting_after_chars)) :
          max_subcaption_len \in 1..3 } \cup { <<>> }

\* alignments of one text on one audio file with one service: the script
\* assigns a tracker to the scene and adds the text, or the empty text, as
\* subcaptions with several maximal lengths, and the aligner of the scene is
\* asked for the timestamps of several tuples of offsets
NextChunks ==
    \/ /\ scene.trackers = <<>>
       /\ AssignTracker(Dotted, NarrationAudio)
    \/ \E txt \in ChunkTexts, max_subcaption_len \in -1..4 :
          AddSubcaptionText(txt, 2, max_subcaption_len)
    \/ \E char_offsets \in ChunkOffsets :
          AlignCharsAndCache(InterpolationAligner, SourceText(Dotted), char_offsets)
    \/ Play

SpecChunks == InitScripted /\ [][NextChunks]_vars

\* C38 as stated: every result _align_chars_and_cache returns, from the
\* cache or from align_chars, to add_subcaption_text or to a caller that asks
\* for the offsets of the bookmarks, has one timestamp per character offset
\* asked for.
C38_OneTimestampPerOffset ==
    (/\ ret.op \in {"add_subcaption_text", "_align_chars_and_cache"}
     /\ ret.status \in {"ok", "ValueError"}
     /\ Len(ret.value.cache) > 0) =>
        Len(ret.value.timestamps) = Len(ret.value.char_offsets)

====
